---- MODULE Spec2Model ----
(***************************************************************************)
(* Two nodes of the P2P file sharer joined by one TCP connection.          *)
(*                                                                         *)
(* Modelled sources:                                                       *)
(*   internal/network/connection.go  Connection (send, reliable send,      *)
(*                                   retry sweep, dispatch, GET/PUT,       *)
(*                                   FILESTART/FILEDATA/FILEEND/PROGRESS/  *)
(*                                   ACK handlers)                         *)
(*   internal/network/transfer.go    FileTransfer (Pause, Resume, ...)     *)
(*   unnamed/part_005                Message, RequiresAck, Marshal         *)
(*   unnamed/part_006                App (registry)                        *)
(*   internal/network/command.go     CommandParser: handlePut and its      *)
(*                                   executeRemoteCommand                  *)
(*                                   executeRemoteCommand, handlePutMultiple*)
(*   unnamed/part_007                CommandParser: Execute, handleGet and *)
(*                                   its executeRemoteCommand (reliable    *)
(*                                   send), MSG, PAUSE, RESUME, CANCEL,    *)
(*                                   QUIT                                  *)
(*   unnamed/part_008                StartCommandInterface (the command    *)
(*                                   loop that calls Execute)              *)
(*   internal/network/server.go      StartListening (accept loop)          *)
(*                                                                         *)
(* A file is a sequence of chunks (one chunk = one read of the 256 KiB     *)
(* buffer); a chunk is an integer.  SHA-256 is modelled as a collision     *)
(* free function of the content.  Every os.Open/os.Create of the transfer  *)
(* code is followed by NewFileTransfer+AddTransfer, so a file handle is    *)
(* identified with the transfer it was opened for: the fields closes/pos   *)
(* of a transfer record are the state of that OS handle, the field file    *)
(* is the Go field FileTransfer.File (non-nil or nil).                     *)
(***************************************************************************)
EXTENDS Integers, Sequences, FiniteSets, TLC

Nodes == {"A", "B"}
Peer(n) == IF n = "A" THEN "B" ELSE "A"

Names == {"f", "g", "h", "big"}

\* ---- program constants --------------------------------------------------
maxRetries == 5
initialWait == 1
SweepPeriod == 5
ReliableTimeout == 150
CommandTimeout == 100
ChunkSize == 262144
MaxActive == 3
AckRepeats == 5
EndAttempts == 5
MiB == 1048576
HealthPeriod == 100
QuietLimit == 250
PingGap == 100
PingTimeout == 300
ReadDeadline == 300
DeadLimit == 600

\* ---- bounds -------------------------------------------------------------
FileChunks == 2
BigChunks == 5
MaxRetx == 1
MaxIoErr == 1
MaxClock == 170
MaxAlive == 620
TypeFrom == 580
MaxLen == 3

\* ---- message kinds and statuses (part_005:10-24, transfer.go:14-23) ------
MsgTypeMessage == "MESSAGE"
MsgTypeHandshake == "HANDSHAKE"
MsgTypeCommand == "COMMAND"
MsgTypeCommandResult == "COMMANDRESULT"
MsgTypeFileStart == "FILESTART"
MsgTypeFileData == "FILEDATA"
MsgTypeFileEnd == "FILEEND"
MsgTypeError == "ERROR"
MsgTypeProgress == "PROGRESS"
MsgTypeACK == "ACK"
MsgTypePing == "PING"
MsgTypePong == "PONG"

TransferTypeSend == "send"
TransferTypeReceive == "receive"
TransferStatusInProgress == "in_progress"
TransferStatusComplete == "complete"
TransferStatusFailed == "failed"
TransferStatusWaitingAck == "waiting_ack"
TransferStatusPaused == "paused"

VARIABLES cfg, disk, xfer, registry, handlers, pending, net, retx, rchan,
          reader, cmd, loops, nextId, connOpen, budget, clock, lastOut,
          codec, link, lk

vars == <<cfg, disk, xfer, registry, handlers, pending, net, retx, rchan,
          reader, cmd, loops, nextId, connOpen, budget, clock, lastOut,
          codec, link, lk>>

\* The variables of the transfer engine.
program == <<cfg, disk, xfer, registry, handlers, pending, net, retx, rchan,
             reader, cmd, loops, nextId, connOpen, budget, clock, lastOut>>

\* ---- small helpers -------------------------------------------------------
NoSum == <<>>
Sha(content) == <<1>> \o content

Range(f) == {f[x] : x \in DOMAIN f}
Drop(f, k) == [x \in (DOMAIN f) \ {k} |-> f[x]]
Put(f, k, v) == [x \in (DOMAIN f) \cup {k} |-> IF x = k THEN v ELSE f[x]]

\* The response handlers of a connection are a map from message id to the
\* handler registered under it; unregistering deletes the entry.
UnregisterNothing(h, id) == h
UnregisterResponseHandler(h, id) == Drop(h, id)
Min2(a, b) == IF a < b THEN a ELSE b

\* base64.StdEncoding of the raw bytes <<c>> of a chunk: a tagged sequence, so
\* that undecoded data is never equal to the bytes it encodes.
B64Enc(raw) == <<64>> \o raw
IsB64(d) == Len(d) = 2 /\ d[1] = 64
B64Dec(d) == Tail(d)

\* The message record.  part_005:26-33 (Timestamp is not modelled).
Msg(t, id, path, size, sum, payload, text, binary) ==
    [type |-> t, id |-> id, path |-> path, size |-> size, sum |-> sum,
     payload |-> payload, text |-> text, binary |-> binary, retry |-> 0]

TextMsg(t, id, text) == Msg(t, id, "", 0, NoSum, <<>>, text, FALSE)
CmdMsg(id, name, path) == Msg(MsgTypeCommand, id, path, 0, NoSum, <<>>, name, FALSE)
NewAckMessage(id) == Msg(MsgTypeACK, id, "", 0, NoSum, <<>>, "", FALSE)
FileAck(path) == Msg(MsgTypeACK, 0, path, 0, NoSum, <<>>, "", FALSE)
NewBinaryMessage(t, chunk) == Msg(t, 0, "", 0, NoSum, <<chunk>>, "", TRUE)


RequiresAck(m) ==
    m.type \in {MsgTypeFileStart, MsgTypeFileEnd, MsgTypeCommand, MsgTypeCommandResult}

\* Message.Marshal: a binary payload is base64 encoded and the flag cleared.
Marshal(m) ==
    IF m.binary
    THEN [m EXCEPT !.payload = B64Enc(m.payload), !.binary = FALSE]
    ELSE m

\* handleFileData's decoding of the payload of a received message.
PayloadAsSent(m) == m.payload

DecodePayload(m) ==
    IF m.binary THEN m.payload
    ELSE IF IsB64(m.payload) THEN B64Dec(m.payload) ELSE m.payload


\* ---- files ---------------------------------------------------------------
\* A path on a node's shared folder: [exists, data], data a sequence of chunks.
NoFile == [exists |-> FALSE, data |-> <<>>]
SourceFile(n, name) ==
    [exists |-> TRUE,
     data |-> [i \in 1..(IF name = "big" THEN BigChunks ELSE FileChunks) |->
                  (IF n = "A" THEN 10 ELSE 20) + i]]
FileSize(f) == Len(f.data) * ChunkSize

\* File.Write of one chunk through a handle whose offset is pos chunks.
WriteAt(data, pos, c) ==
    IF pos < Len(data) THEN [data EXCEPT ![pos + 1] = c]
    ELSE data \o [i \in 1..(pos - Len(data)) |-> 0] \o <<c>>

\* ---- configuration (internal/config/config.go) ---------------------------
ConfigSet ==
    [verify : BOOLEAN, maxSize : {0, 1}, readOnly : {FALSE}, writeOnly : {FALSE}]

\* ---- paths (connection.go:26-39) ------------------------------------------
\* A path is the sequence of its characters; a file name of the model is one
\* character.  Config.Folder is /s on both nodes.
Folder == <<"/", "s">>

\* Relative paths that lead out of the folder: ../x and ../s2, the second a
\* neighbour of the folder whose name begins with the name of the folder.
EscapingPaths == {"../x", "../s2"}
Spelling(path) ==
    CASE path = "../x" -> <<".", ".", "/", "x">>
      [] path = "../s2" -> <<".", ".", "/", "s", "2">>
      [] OTHER -> <<path>>

\* The components of a path, the separators dropped.
RECURSIVE Split(_)
Split(s) ==
    IF s = <<>> THEN <<>>
    ELSE IF Head(s) = "/" THEN Split(Tail(s))
    ELSE LET rest == Split(Tail(s))
             ends == Len(s) = 1 \/ s[2] = "/"
         IN IF ends THEN <<<<Head(s)>>>> \o rest
            ELSE <<<<Head(s)>> \o Head(rest)>> \o Tail(rest)

\* filepath.Clean of a rooted path, on components: . is dropped and ..
\* removes the component before it (none at the root).
RECURSIVE Resolve(_, _)
Resolve(done, todo) ==
    IF todo = <<>> THEN done
    ELSE IF Head(todo) = <<".">> THEN Resolve(done, Tail(todo))
    ELSE IF Head(todo) = <<".", ".">>
         THEN Resolve(IF done = <<>> THEN done ELSE SubSeq(done, 1, Len(done) - 1),
                      Tail(todo))
    ELSE Resolve(Append(done, Head(todo)), Tail(todo))

RECURSIVE Rooted(_)
Rooted(comps) ==
    IF comps = <<>> THEN <<>> ELSE <<"/">> \o Head(comps) \o Rooted(Tail(comps))

Clean(s) == LET r == Rooted(Resolve(<<>>, Split(s))) IN IF r = <<>> THEN <<"/">> ELSE r

\* filepath.Join and filepath.Abs of a rooted path.
Join(base, rel) == Clean(base \o <<"/">> \o rel)
Abs(s) == Clean(s)

HasPrefix(s, prefix) ==
    Len(s) >= Len(prefix) /\ SubSeq(s, 1, Len(prefix)) = prefix

\* filepath.Abs(filepath.Join(baseDir, targetPath)) and filepath.Abs(baseDir)
\* of isPathSafe, for every path of the model.
absTarget ==
    [path \in Names \cup EscapingPaths |-> Abs(Join(Folder, Spelling(path)))]

absBase == Abs(Folder)

\* The path lies in the folder or is the folder.
InFolder(path) ==
    absTarget[path] = absBase \/ HasPrefix(absTarget[path], absBase \o <<"/">>)

\* isPathSafe (connection.go:26-39): the absolute target begins with the
\* characters of the absolute folder.
isPathSafe(path) == HasPrefix(absTarget[path], absBase)

\* ---- FileTransfer and the registry (transfer.go, part_006) ---------------
NewFileTransfer(name, size, type) ==
    [name |-> name, type |-> type, status |-> TransferStatusInProgress,
     size |-> size, bytes |-> 0, file |-> FALSE, sum |-> NoSum,
     paused |-> FALSE, lastProgress |-> 0, lastProgressTime |-> "start",
     closes |-> 0, pos |-> 0]

\* A registration that keeps the entry a name already has.
AddTransferKeepFirst(reg, xs, t) ==
    [xfer |-> Append(xs, t),
     registry |-> IF t.name \in DOMAIN reg THEN reg ELSE Put(reg, t.name, Len(xs) + 1)]

\* App.AddTransfer: the next sequential id, the map keyed by the name.
AddTransfer(reg, xs, t) ==
    [xfer |-> Append(xs, t), registry |-> Put(reg, t.name, Len(xs) + 1)]

\* App.RemoveTransfer: deletes the entry of the transfer's NAME.
RemoveNothing(reg, t) == reg

RemoveTransfer(reg, t) == Drop(reg, t.name)

GetTransfers(n) == Range(registry[n])

\* canInitiateTransfer (connection.go:570-582)
canInitiateOneMore(n) ==
    Cardinality({tid \in GetTransfers(n) :
                    xfer[n][tid].status = TransferStatusInProgress}) <= MaxActive

canInitiateTransfer(n) ==
    Cardinality({tid \in GetTransfers(n) :
                    xfer[n][tid].status = TransferStatusInProgress}) < MaxActive

IsActiveTransferInProgress(n) ==
    \E tid \in GetTransfers(n) :
        xfer[n][tid].status \in {TransferStatusInProgress, TransferStatusPaused}

\* FileTransfer.UpdateProgress (transfer.go:64-116): the byte count is set,
\* LastProgressTime stamped; the rest is display.
UpdateProgress(t, bytesTransferred) ==
    [t EXCEPT !.bytes = bytesTransferred, !.lastProgressTime = "update"]

\* FileTransfer.Pause / Resume on a transfer record.
\* A pause that does not look at the status.
PauseAlways(t) == [t EXCEPT !.status = TransferStatusPaused, !.paused = TRUE]

Pause(t) ==
    IF t.status = TransferStatusInProgress
    THEN [t EXCEPT !.status = TransferStatusPaused, !.paused = TRUE]
    ELSE t

Resume(t) ==
    IF t.status = TransferStatusPaused
    THEN [t EXCEPT !.status = TransferStatusInProgress, !.paused = FALSE,
                   !.lastProgressTime = "resume"]
    ELSE t

\* File.Close through the handle of transfer t.
CloseHandle(t) == [t EXCEPT !.closes = Min2(@ + 1, 2)]

\* ---- connection: sending --------------------------------------------------
NewId(n) == 2 * nextId[n] + (IF n = "A" THEN 1 ELSE 2)

\* A send that enters nothing in the pending map.
addPendingNothing(pend, m) == pend

\* addPendingMessage (connection.go:284-298)
addPendingMessage(pend, m) ==
    IF m.id = 0 THEN pend
    ELSE Put(pend, m.id, [msg |-> m, retry |-> 0, last |-> clock.now])

\* SendMessage (connection.go:246-282) on w = [net, pending]: the line is
\* appended to the peer's inbound stream; a message that requires an ACK and
\* is not a COMMANDRESULT is entered in the pending map.  Every message of
\* the model that requires an ACK is sent with an id.
SendMessage(w, n, m0) ==
    LET m == Marshal(m0) IN
    [net |-> [w.net EXCEPT ![Peer(n)] = Append(@, m)],
     pending |-> IF RequiresAck(m) /\ m.type # MsgTypeCommandResult
                 THEN [w.pending EXCEPT ![n] = addPendingMessage(@, m)]
                 ELSE w.pending]

RECURSIVE SendTimes(_, _, _, _)
SendTimes(w, n, m, k) ==
    IF k = 0 THEN w ELSE SendTimes(SendMessage(w, n, m), n, m, k - 1)

Wire == [net |-> net, pending |-> pending]

\* SendError (connection.go:476-482)
SendError(w, n, text) == SendMessage(w, n, TextMsg(MsgTypeError, 0, text))

\* ---- response channels ----------------------------------------------------
\* rchan[n] holds the buffered (capacity 1) channels of the waiting calls:
\* "rel" is SendReliableMessage's responseChan, "resp"/"err" are
\* executeRemoteCommand's respChan/errChan.
ChanFull(n, id, ch) == \E e \in rchan[n] : e.id = id /\ e.ch = ch
ChanPut(rc, id, ch, val) == rc \cup {[id |-> id, ch |-> ch, val |-> val]}
ChanDropId(rc, id) == {e \in rc : e.id # id}

\* A reader that sits in the 15 s wait of a reliable send made from its own
\* read loop processes nothing: only then do the bounded waits of the model
\* run out (the peers are otherwise prompt).
Stalled == \E k \in Nodes : reader[k].pc = "getWait"

\* A wait begun at time since has run out: 15 s on the clock of the timed
\* specification, a stalled read loop otherwise.
TimedOut(since, limit) ==
    IF clock.timed THEN clock.now - since >= limit ELSE Stalled

\* The commands the user of a node has yet to type, in order; a command is
\* typed when the command task is back at its prompt.
Command(op, name, id) == [op |-> op, name |-> name, id |-> id]
Typed(n, op, name, id) ==
    budget.script[n] # <<>> /\ Head(budget.script[n]) = Command(op, name, id)
Done(n) == [budget EXCEPT !.script[n] = Tail(@)]

IdleCmd == [pc |-> "idle", id |-> 0, path |-> "", tid |-> 0, since |-> 0, rest |-> <<>>]
IdleReader == [pc |-> "idle", id |-> 0, tid |-> 0, rel |-> 0, ch |-> "", val |-> "",
               since |-> 0]
NewLoop == [pc |-> "loop", size |-> 0, sent |-> 0, lastProgress |-> 0, lastProgressBytes |-> 0,
            attempt |-> 0, id |-> 0, chunk |-> 0, since |-> 0]

\* ---- the wire format, byte by byte (part_005:26-75) -----------------------
\* Strings are sequences of bytes 0..255.  encoding/base64 StdEncoding.
B64Char(i) ==
    IF i < 26 THEN 65 + i
    ELSE IF i < 52 THEN 97 + (i - 26)
    ELSE IF i < 62 THEN 48 + (i - 52)
    ELSE IF i = 62 THEN 43 ELSE 47

B64Index(c) ==
    IF c \in 65..90 THEN c - 65
    ELSE IF c \in 97..122 THEN c - 71
    ELSE IF c \in 48..57 THEN c + 4
    ELSE IF c = 43 THEN 62
    ELSE IF c = 47 THEN 63 ELSE -1

RECURSIVE EncodeToString(_)
EncodeToString(b) ==
    IF b = <<>> THEN <<>>
    ELSE LET k == Min2(Len(b), 3)
             v == (b[1] * 65536) + ((IF k > 1 THEN b[2] ELSE 0) * 256)
                  + (IF k > 2 THEN b[3] ELSE 0)
         IN <<B64Char(v \div 262144), B64Char((v \div 4096) % 64),
              IF k > 1 THEN B64Char((v \div 64) % 64) ELSE 61,
              IF k > 2 THEN B64Char(v % 64) ELSE 61>>
            \o EncodeToString(SubSeq(b, k + 1, Len(b)))

\* The result of a decoder: the value, or an error.
Decoded(v) == [ok |-> TRUE, val |-> v]
DecodeError == [ok |-> FALSE, val |-> <<>>]

RECURSIVE DecodeString(_)
DecodeString(s) ==
    IF s = <<>> THEN Decoded(<<>>)
    ELSE IF Len(s) < 4 THEN DecodeError
    ELSE LET pad == IF s[4] # 61 THEN 0 ELSE IF s[3] # 61 THEN 1 ELSE 2
             i1 == B64Index(s[1])
             i2 == B64Index(s[2])
             i3 == IF pad = 2 THEN 0 ELSE B64Index(s[3])
             i4 == IF pad > 0 THEN 0 ELSE B64Index(s[4])
             v == (i1 * 262144) + (i2 * 4096) + (i3 * 64) + i4
             rest == DecodeString(SubSeq(s, 5, Len(s)))
         IN IF \/ i1 < 0 \/ i2 < 0 \/ i3 < 0 \/ i4 < 0
               \/ pad > 0 /\ Len(s) > 4
               \/ ~rest.ok
            THEN DecodeError
            ELSE Decoded(SubSeq(<<v \div 65536, (v \div 256) % 256, v % 256>>,
                                1, 3 - pad) \o rest.val)

\* encoding/json, string values.  The encoder escapes the quote, the
\* backslash, control characters and <, >, &, and writes the escape of U+FFFD for a byte
\* that is not part of a valid UTF-8 sequence (here: every byte >= 128).
Hex(d) == IF d < 10 THEN 48 + d ELSE 97 + (d - 10)
UnHex(c) ==
    IF c \in 48..57 THEN c - 48
    ELSE IF c \in 97..102 THEN c - 87
    ELSE IF c \in 65..70 THEN c - 55 ELSE -1

jsonEscape(b) ==
    IF b = 34 \/ b = 92 THEN <<92, b>>
    ELSE IF b = 10 THEN <<92, 110>>
    ELSE IF b = 13 THEN <<92, 114>>
    ELSE IF b = 9 THEN <<92, 116>>
    ELSE IF b < 32 \/ b \in {60, 62, 38}
         THEN <<92, 117, 48, 48, Hex(b \div 16), Hex(b % 16)>>
    ELSE IF b >= 128 THEN <<92, 117, 102, 102, 102, 100>>
    ELSE <<b>>

RECURSIVE jsonString(_)
jsonString(s) ==
    IF s = <<>> THEN <<>> ELSE jsonEscape(s[1]) \o jsonString(Tail(s))

Utf8(r) ==
    IF r < 128 THEN <<r>>
    ELSE IF r < 2048 THEN <<192 + (r \div 64), 128 + (r % 64)>>
    ELSE <<224 + (r \div 4096), 128 + ((r \div 64) % 64), 128 + (r % 64)>>

\* The decoder: the bytes between the quotes of a string value.
RECURSIVE jsonUnquote(_)
jsonUnquote(s) ==
    IF s = <<>> THEN Decoded(<<>>)
    ELSE LET esc == s[1] = 92
             uni == esc /\ Len(s) >= 6 /\ s[2] = 117
                        /\ \A i \in 3..6 : UnHex(s[i]) >= 0
             used == IF uni THEN 6 ELSE IF esc THEN 2 ELSE 1
             bad == \/ s[1] < 32 \/ s[1] = 34
                    \/ esc /\ Len(s) < 2
                    \/ esc /\ ~uni /\ Len(s) >= 2
                           /\ s[2] \notin {34, 92, 47, 110, 114, 116, 98, 102}
             val == IF uni
                    THEN Utf8((UnHex(s[3]) * 4096) + (UnHex(s[4]) * 256)
                              + (UnHex(s[5]) * 16) + UnHex(s[6]))
                    ELSE IF esc
                    THEN (CASE s[2] = 110 -> <<10>> [] s[2] = 114 -> <<13>>
                            [] s[2] = 116 -> <<9>> [] s[2] = 98 -> <<8>>
                            [] s[2] = 102 -> <<12>> [] OTHER -> <<s[2]>>)
                    ELSE IF s[1] >= 128 THEN <<239, 191, 189>>
                    ELSE <<s[1]>>
             rest == IF bad THEN DecodeError
                     ELSE jsonUnquote(SubSeq(s, used + 1, Len(s)))
         IN IF bad \/ ~rest.ok THEN DecodeError ELSE Decoded(val \o rest.val)

\* The names of the message types as bytes.
TypeBytes(t) ==
    CASE t = MsgTypeFileData -> <<70, 73, 76, 69, 68, 65, 84, 65>>
      [] t = MsgTypeMessage -> <<77, 69, 83, 83, 65, 71, 69>>
      [] t = MsgTypeCommand -> <<67, 79, 77, 77, 65, 78, 68>>

\* A message as the sender builds it: NewMessage and NewBinaryMessage.
WireMessage(t, id, data, binary) ==
    [type |-> TypeBytes(t), id |-> id, data |-> data, binary |-> binary]

\* Message.Marshal without the base64 step.
MarshalRaw(m) ==
    [type |-> jsonString(m.type),
     data |-> jsonString(m.data),
     binary |-> m.binary,
     id |-> [present |-> m.id # <<>>, val |-> jsonString(m.id)]]

\* Message.Marshal followed by json.Marshal: the fields of the JSON object.
\* "binary" and "id" are omitempty; Marshal clears Binary, so the binary
\* field of a line written by Marshal is always absent.
MarshalLine(m) ==
    [type |-> jsonString(m.type),
     data |-> jsonString(IF m.binary THEN EncodeToString(m.data) ELSE m.data),
     binary |-> FALSE,
     id |-> [present |-> m.id # <<>>, val |-> jsonString(m.id)]]

\* bufio ReadString('\n') followed by Unmarshal: a raw line feed inside a
\* value ends the line early and what was read is not a JSON object.
Unmarshal(line) ==
    LET t == jsonUnquote(line.type)
        d == jsonUnquote(line.data)
        i == IF line.id.present THEN jsonUnquote(line.id.val) ELSE Decoded(<<>>)
        cut == \E f \in {line.type, line.data, line.id.val} : 10 \in Range(f)
    IN IF cut \/ ~t.ok \/ ~d.ok \/ ~i.ok THEN DecodeError
       ELSE Decoded([type |-> t.val, id |-> i.val, data |-> d.val,
                     binary |-> line.binary])

\* The bytes the receiving handler works with: handleFileData decodes the
\* payload (connection.go:1119-1128), every other handler uses msg.Data.
ReceivedData(msg) ==
    IF msg.type # TypeBytes(MsgTypeFileData) THEN msg.data
    ELSE IF msg.binary THEN msg.data
    ELSE IF DecodeString(msg.data).ok THEN DecodeString(msg.data).val
    ELSE msg.data

NoCodec == [pc |-> "off", m |-> <<>>, line |-> <<>>, got |-> DecodeError,
            data |-> <<>>]

\* ---- the connection's role and phase (connection.go:70-87, 101-194) -------
\* phase: "new" before Start, "hello" once Handshake has written the node's
\* HANDSHAKE, "open" while the read loop runs, "closed" after Close;
\* "foreign" marks a peer that is not this program.  first is what Handshake
\* read; listed is the connection's membership of App.Connections; exited is
\* os.Exit(1) of a client; werr is the step of SendMessage that last returned
\* an I/O error ("write", "flush" or "" for none).  The keep-alive fields of
\* the connection (connection.go:63-66): pings is activePings as pairs of id
\* and time sent, lastPing is lastPingSent (Never for the zero time), lastRecv
\* is lastMessageReceived; checked is the instant of the last tick of the
\* health ticker that was served, readSince the instant the read loop last
\* set its read deadline.  Times are instants of the clock; where the clock
\* does not run they stay at 0.
Never == 0 - 1
Dialled ==
    [n \in Nodes |-> [isClient |-> n = "A", phase |-> "new", wrote |-> FALSE,
                      first |-> "", exited |-> FALSE, listed |-> TRUE,
                      werr |-> "", pings |-> {}, lastPing |-> Never,
                      lastRecv |-> 0, checked |-> 0, readSince |-> 0]]
Established ==
    [n \in Nodes |-> [Dialled[n] EXCEPT !.phase = "open", !.wrote = TRUE,
                                        !.first = MsgTypeHandshake]]

\* Close: the socket is closed, the connection leaves App.Connections and a
\* client process exits.
Close(l, n) ==
    [l EXCEPT ![n].phase = "closed", ![n].listed = FALSE,
              ![n].exited = l[n].isClient]

\* ---- the mutexes of one node (connection.go:48-68, part_006:89-97) --------
\* Connection.sendMutex, Connection.pendingMessagesMutex and App.mu, and the
\* goroutines that take them: the command task, the read loop, a send
\* goroutine, the retry sweep, its retransmitting goroutines and the accept
\* loop of the listener.
Mutexes == {"send", "pend", "app"}
Tasks == {"cmd", "reader", "loop", "sweep", "retx", "accept"}

\* The steps of a function, in program order.
Op(op, arg, kind) == [op |-> op, arg |-> arg, kind |-> kind]
Lock(m) == Op("lock", m, "")
Unlock(m) == Op("unlock", m, "")
Do(what) == Op("work", what, "")
Access(map, kind) == Op("access", map, kind)
Go == Op("go", "retx", "")
Exit == Op("exit", "", "")

\* Connection.Close (connection.go:174-194).
CloseProgram(client) ==
    <<Do("Conn.Close"), Lock("app"), Access("connections", "write"), Unlock("app")>>
    \o (IF client THEN <<Exit>> ELSE <<>>)

\* SendMessage (connection.go:246-282), by outcome.
SendOk(ack) ==
    <<Lock("send"), Do("WriteString"), Do("Flush")>>
    \o (IF ack THEN <<Lock("pend"), Do("pendingMessages[id] = msg"), Unlock("pend")>>
        ELSE <<>>)
    \o <<Unlock("send")>>
SendWriteError(client) ==
    <<Lock("send"), Do("WriteString fails")>>
    \o (IF client THEN CloseProgram(TRUE) ELSE <<>>)
    \o <<Unlock("send")>>
SendFlushError ==
    <<Lock("send"), Do("WriteString"), Do("Flush fails"), Unlock("send")>>
SendMessagePrograms(client) ==
    {SendOk(TRUE), SendOk(FALSE), SendWriteError(client), SendFlushError}

\* App.GetTransfers, AddTransfer, RemoveTransfer (part_006:134-166) and
\* canInitiateTransfer (connection.go:570-582).
GetTransfersProgram == <<Lock("app"), Access("transfers", "read"), Unlock("app")>>
AddTransferProgram == <<Lock("app"), Access("transfers", "write"), Unlock("app")>>
RemoveTransferProgram == <<Lock("app"), Access("transfers", "write"), Unlock("app")>>

\* handleCancelTransfer (part_007:727-757).
CancelProgram ==
    GetTransfersProgram \o <<Do("File.Close")>> \o RemoveTransferProgram

\* handleQuit (part_007:331-346).
QuitProgram ==
    <<Lock("app"), Do("conn.Conn.Close"), Access("connections", "write"),
      Unlock("app"), Exit>>

\* handleGetCommand up to AddTransfer (connection.go:609, 658).
InitiateProgram == GetTransfersProgram \o AddTransferProgram

\* One pass of monitorPendingMessages with the retransmission done in place.
SweepInline ==
    <<Lock("pend"), Do("RetryCount++"), Lock("send"), Do("WriteString"),
      Do("Flush"), Unlock("send"), Unlock("pend")>>

\* One pass of monitorPendingMessages (connection.go:307-333) and the
\* goroutine it starts (connection.go:322-330).
SweepProgram ==
    <<Lock("pend"), Do("RetryCount++"), Go, Unlock("pend")>>
RetransmitProgram ==
    <<Lock("send"), Do("WriteString"), Do("Flush"), Unlock("send")>>

\* The read loop: handleProgress (connection.go:1236-1247), an ACK handled by
\* handleMessage and handleAck (connection.go:381-383, 1252-1269), the ACK
\* the loop sends itself, and the deferred Close of Start.
HandleProgressProgram == <<Access("transfers", "read"), Do("UpdateProgress")>>
HandleAckProgram ==
    <<Lock("pend"), Do("delete(pendingMessages, id)"), Unlock("pend"),
      Access("transfers", "read")>> \o RemoveTransferProgram
ReaderPrograms(client) ==
    {HandleProgressProgram, HandleAckProgram, SendOk(FALSE), CloseProgram(client)}

\* The accept loop of StartListening (server.go:26-42).
AcceptProgram ==
    <<Lock("app"), Access("connections", "write"), Unlock("app"),
      Do("go connection.Start"), Access("connections", "read")>>

Programs(t, client) ==
    CASE t = "cmd" -> {CancelProgram, QuitProgram, InitiateProgram, SendOk(TRUE)}
      [] t = "reader" -> ReaderPrograms(client)
      [] t = "loop" -> SendMessagePrograms(client)
      [] t = "sweep" -> {SweepProgram}
      [] t = "accept" -> IF client THEN {} ELSE {AcceptProgram}
      [] t = "retx" -> {}

\* client: the role of the node; held: the task holding each mutex; fn: the
\* function each task was started with; run: the steps of it the task has
\* still to take.
NoLocks ==
    [client |-> FALSE, held |-> [m \in Mutexes |-> "none"],
     fn |-> [t \in Tasks |-> <<>>], run |-> [t \in Tasks |-> <<>>],
     exited |-> FALSE]


InitDisk ==
    [n \in Nodes |->
        [name \in Names \cup EscapingPaths |->
            IF name \in Names \/ n = "A" THEN SourceFile(n, name) ELSE NoFile]]

\* The state after both nodes have started and connected: configurations
\* cfgs, no transfer, no message; timed selects the clocked reading of the
\* waits, scripts are the command sequences the two users may type.
InitProgram(cfgs, timed, scripts) ==
    /\ cfg \in cfgs
    /\ disk = InitDisk
    /\ xfer = [n \in Nodes |-> <<>>]
    /\ registry = [n \in Nodes |-> <<>>]
    /\ handlers = [n \in Nodes |-> <<>>]
    /\ pending = [n \in Nodes |-> <<>>]
    /\ net = [n \in Nodes |-> <<>>]
    /\ retx = [n \in Nodes |-> {}]
    /\ rchan = [n \in Nodes |-> {}]
    /\ reader = [n \in Nodes |-> IdleReader]
    /\ cmd = [n \in Nodes |-> IdleCmd]
    /\ loops = [n \in Nodes |-> <<>>]
    /\ nextId = [n \in Nodes |-> 0]
    /\ connOpen = [n \in Nodes |-> TRUE]
    /\ budget \in {[retx |-> 0, ioerr |-> 0, script |-> sc] : sc \in scripts}
    /\ clock = [timed |-> timed, now |-> 0, swept |-> {}]
    /\ lastOut = [n \in Nodes |-> "none"]

\* The state every transfer scenario starts from: both ends have completed
\* the handshake (connection.go:103-108), A dialled (isClient) and B accepted.
InitWith(cfgs, timed, scripts) ==
    /\ InitProgram(cfgs, timed, scripts)
    /\ codec = NoCodec
    /\ link = Established
    /\ lk = NoLocks

\* Configurations without a size limit; those in which both nodes verify.
Unlimited == {c \in [Nodes -> ConfigSet] : \A n \in Nodes : c[n].maxSize = 0}
Verifying == {c \in Unlimited : \A n \in Nodes : c[n].verify}


\* ---- handleGetCommand (connection.go:584-774) -----------------------------
\* The early returns of handleGetCommand, in the order of the code; "ok" when
\* the handler goes on to open the file.
GetErrorNoLimit(n, path) ==
    IF path = "" THEN "GET requires a file path"
    ELSE IF ~canInitiateTransfer(n) THEN "Too many active transfers"
    ELSE IF ~isPathSafe(path) THEN "Access denied"
    ELSE IF cfg[n].readOnly THEN "read-only mode"
    ELSE IF ~disk[n][path].exists THEN "File not found"
    ELSE "ok"

GetError(n, path) ==
    IF path = "" THEN "GET requires a file path"
    ELSE IF ~canInitiateTransfer(n) THEN "Too many active transfers"
    ELSE IF ~isPathSafe(path) THEN "Access denied"
    ELSE IF cfg[n].readOnly THEN "read-only mode"
    ELSE IF ~disk[n][path].exists THEN "File not found"
    ELSE IF cfg[n].maxSize > 0 /\ FileSize(disk[n][path]) > cfg[n].maxSize * 1024 * 1024
         THEN "File size exceeds maximum"
    ELSE "ok"

\* connection.go:647-672: open, NewFileTransfer, AddTransfer, checksum when
\* Verify is set, then the reliable send of FILESTART under a fresh id.
StartMsg(n, path, relId) ==
    Msg(MsgTypeFileStart, relId, path, FileSize(disk[n][path]),
        IF cfg[n].verify THEN Sha(disk[n][path].data) ELSE NoSum, <<>>, "", FALSE)

GetBegin(n, path, w) ==
    LET relId == NewId(n)
        t0    == NewFileTransfer(path, FileSize(disk[n][path]), TransferTypeSend)
        t     == [t0 EXCEPT !.file = TRUE,
                            !.sum = IF cfg[n].verify THEN Sha(disk[n][path].data) ELSE NoSum]
        a     == AddTransfer(registry[n], xfer[n], t)
    IN [xfer |-> a.xfer, registry |-> a.registry, tid |-> Len(a.xfer), rel |-> relId,
        handlers |-> Put(handlers[n], relId, "rel"),
        wire |-> SendMessage(w, n, StartMsg(n, path, relId))]

\* connection.go:672-679: the reliable send failed; the file is closed and the
\* transfer removed.
GetAbortX(n, tid) == [xfer[n] EXCEPT ![tid] = CloseHandle(@)]
GetAbortR(n, tid) == RemoveTransfer(registry[n], xfer[n][tid])

\* ---- the local command task (command.go, part_007) -----------------------
\* handlePut (command.go:302-337): stat, then executeRemoteCommand("PUT")
\* (command.go:508-558): handler under a fresh id, COMMAND sent with SendMessage.
UserPut(n, name) ==
    /\ cmd[n].pc = "idle"
    /\ connOpen[n]
    /\ Typed(n, "PUT", name, 0)
    /\ IF ~disk[n][name].exists
       THEN /\ lastOut' = [lastOut EXCEPT ![n] = "file not found"]
            /\ UNCHANGED <<handlers, net, pending, cmd, nextId>>
       ELSE /\ LET id == NewId(n)
                   w  == SendMessage(Wire, n, CmdMsg(id, "PUT", name))
               IN /\ handlers' = [handlers EXCEPT ![n] = Put(@, id, "cmd")]
                  /\ net' = w.net
                  /\ pending' = w.pending
                  /\ cmd' = [cmd EXCEPT ![n] = [IdleCmd EXCEPT !.pc = "putWait", !.id = id,
                                                     !.path = name, !.since = clock.now]]
            /\ nextId' = [nextId EXCEPT ![n] = @ + 1]
            /\ UNCHANGED lastOut
    /\ budget' = Done(n)
    /\ UNCHANGED <<codec, link, lk, cfg, disk, xfer, registry, retx, rchan, reader, loops, connOpen,
                   clock>>

\* executeRemoteCommand's select returns a result: on "Ready to receive"
\* handlePut calls handleGetCommand on the command task and drops its reply.
CmdPutReady(n) ==
    /\ cmd[n].pc = "putWait"
    /\ \E e \in rchan[n] :
        /\ e.id = cmd[n].id /\ e.ch = "resp" /\ e.val = "Ready to receive file"
        /\ rchan' = [rchan EXCEPT ![n] = ChanDropId(@, cmd[n].id)]
    /\ IF GetError(n, cmd[n].path) # "ok"
       THEN /\ cmd' = [cmd EXCEPT ![n] = IdleCmd]
            /\ handlers' = [handlers EXCEPT ![n] = UnregisterResponseHandler(@, cmd[n].id)]
            /\ lastOut' = [lastOut EXCEPT ![n] = "ok"]
            /\ UNCHANGED <<xfer, registry, net, pending, nextId>>
       ELSE /\ LET g == GetBegin(n, cmd[n].path, Wire)
               IN /\ xfer' = [xfer EXCEPT ![n] = g.xfer]
                  /\ registry' = [registry EXCEPT ![n] = g.registry]
                  /\ handlers' = [handlers EXCEPT ![n] = UnregisterResponseHandler(g.handlers, cmd[n].id)]
                  /\ net' = g.wire.net
                  /\ pending' = g.wire.pending
                  /\ cmd' = [cmd EXCEPT ![n] =
                               [IdleCmd EXCEPT !.pc = "startWait", !.id = g.rel,
                                               !.path = cmd[n].path, !.tid = g.tid,
                                               !.since = clock.now]]
            /\ nextId' = [nextId EXCEPT ![n] = @ + 1]
            /\ UNCHANGED lastOut
    /\ UNCHANGED <<codec, link, lk, cfg, disk, retx, reader, loops, connOpen, budget, clock>>

\* executeRemoteCommand returns the remote error, or any other result.
CmdPutRefused(n) ==
    /\ cmd[n].pc = "putWait"
    /\ \E e \in rchan[n] :
        /\ e.id = cmd[n].id
        /\ \/ e.ch = "err" /\ lastOut' = [lastOut EXCEPT ![n] = "remote error"]
           \/ e.ch = "resp" /\ e.val # "Ready to receive file"
                            /\ lastOut' = [lastOut EXCEPT ![n] = "ok"]
    /\ rchan' = [rchan EXCEPT ![n] = ChanDropId(@, cmd[n].id)]
    /\ handlers' = [handlers EXCEPT ![n] = UnregisterResponseHandler(@, cmd[n].id)]
    /\ cmd' = [cmd EXCEPT ![n] = IdleCmd]
    /\ UNCHANGED <<codec, link, lk, cfg, disk, xfer, registry, pending, net, retx, reader, loops,
                   nextId, connOpen, budget, clock>>

\* executeRemoteCommand's 10 s timer.
CmdPutTimeout(n) ==
    /\ cmd[n].pc = "putWait"
    /\ TimedOut(cmd[n].since, CommandTimeout)
    /\ ~ChanFull(n, cmd[n].id, "resp") /\ ~ChanFull(n, cmd[n].id, "err")
    /\ handlers' = [handlers EXCEPT ![n] = UnregisterResponseHandler(@, cmd[n].id)]
    /\ cmd' = [cmd EXCEPT ![n] = IdleCmd]
    /\ lastOut' = [lastOut EXCEPT ![n] = "command timed out"]
    /\ UNCHANGED <<codec, link, lk, cfg, disk, xfer, registry, pending, net, retx, rchan, reader, loops,
                   nextId, connOpen, budget, clock>>

\* SendReliableMessage(FILESTART) returns nil on the command task
\* (connection.go:360-362, 681): the send goroutine is started.
CmdStartOk(n) ==
    /\ cmd[n].pc = "startWait"
    /\ ChanFull(n, cmd[n].id, "rel")
    /\ rchan' = [rchan EXCEPT ![n] = ChanDropId(@, cmd[n].id)]
    /\ handlers' = [handlers EXCEPT ![n] = UnregisterResponseHandler(@, cmd[n].id)]
    /\ loops' = [loops EXCEPT ![n] = Put(@, cmd[n].tid, [NewLoop EXCEPT !.size = xfer[n][cmd[n].tid].size])]
    /\ cmd' = [cmd EXCEPT ![n] = IdleCmd]
    /\ lastOut' = [lastOut EXCEPT ![n] = "ok"]
    /\ UNCHANGED <<codec, link, lk, cfg, disk, xfer, registry, pending, net, retx, reader,
                   nextId, connOpen, budget, clock>>

\* SendReliableMessage(FILESTART) times out on the command task
\* (connection.go:363-364, 672-679).
CmdStartTimeout(n) ==
    /\ cmd[n].pc = "startWait"
    /\ TimedOut(cmd[n].since, ReliableTimeout)
    /\ ~ChanFull(n, cmd[n].id, "rel")
    /\ handlers' = [handlers EXCEPT ![n] = UnregisterResponseHandler(@, cmd[n].id)]
    /\ xfer' = [xfer EXCEPT ![n] = GetAbortX(n, cmd[n].tid)]
    /\ registry' = [registry EXCEPT ![n] = GetAbortR(n, cmd[n].tid)]
    /\ cmd' = [cmd EXCEPT ![n] = IdleCmd]
    /\ lastOut' = [lastOut EXCEPT ![n] = "ok"]
    /\ UNCHANGED <<codec, link, lk, cfg, disk, pending, net, retx, rchan, reader, loops,
                   nextId, connOpen, budget, clock>>


\* ---- the send goroutine (connection.go:681-768) ---------------------------
\* The deferred file.Close() and App.RemoveTransfer(transfer) of the goroutine.
LoopExitX(xs, tid) == [xs EXCEPT ![tid] = CloseHandle(@)]
LoopExitR(n, tid) == RemoveTransfer(registry[n], xfer[n][tid])

\* WaitForPauseIfNeeded (transfer.go:183-194) lets the loop pass when the
\* transfer is not paused; file.Read then yields the next chunk.
LoopRead(n, tid) ==
    LET x == xfer[n][tid]
        l == loops[n][tid]
        data == disk[n][x.name].data
    IN /\ l.pc = "loop"
       /\ ~x.paused
       /\ x.closes = 0
       /\ x.pos < Len(data)
       /\ loops' = [loops EXCEPT ![n][tid] = [l EXCEPT !.pc = "chunk", !.chunk = data[x.pos + 1]]]
       /\ xfer' = [xfer EXCEPT ![n][tid].pos = @ + 1]
       /\ UNCHANGED <<codec, link, lk, cfg, disk, registry, handlers, pending, net, retx, rchan, reader,
                      cmd, nextId, connOpen, budget, clock, lastOut>>

\* file.Read fails (connection.go:698-702): the handle was closed under the
\* loop (closed = TRUE), or the disk reports an error.
LoopReadError(n, tid, closed) ==
    LET x == xfer[n][tid]
        l == loops[n][tid]
        w == SendError(Wire, n, "Failed to read file")
    IN /\ l.pc = "loop"
       /\ ~x.paused
       /\ IF closed
          THEN x.closes > 0 /\ UNCHANGED budget
          ELSE /\ x.closes = 0
               /\ budget.ioerr < MaxIoErr
               /\ budget' = [budget EXCEPT !.ioerr = @ + 1]
       /\ xfer' = [xfer EXCEPT ![n] =
                     LoopExitX([@ EXCEPT ![tid].status = TransferStatusFailed], tid)]
       /\ registry' = [registry EXCEPT ![n] = LoopExitR(n, tid)]
       /\ net' = w.net
       /\ pending' = w.pending
       /\ loops' = [loops EXCEPT ![n] = Drop(@, tid)]
       /\ UNCHANGED <<codec, link, lk, cfg, disk, handlers, retx, rchan, reader, cmd, nextId, connOpen,
                      clock, lastOut>>

\* The loop returns without sending: WaitForPauseIfNeeded sees Failed while
\* paused (transfer.go:186-191), or the check after the read sees Failed
\* (connection.go:709-711).
LoopAbort(n, tid) ==
    LET x == xfer[n][tid]
        l == loops[n][tid]
    IN /\ x.status = TransferStatusFailed
       /\ \/ l.pc = "loop" /\ x.paused
          \/ l.pc = "chunk"
       /\ xfer' = [xfer EXCEPT ![n] = LoopExitX(@, tid)]
       /\ registry' = [registry EXCEPT ![n] = LoopExitR(n, tid)]
       /\ loops' = [loops EXCEPT ![n] = Drop(@, tid)]
       /\ UNCHANGED <<codec, link, lk, cfg, disk, handlers, pending, net, retx, rchan, reader, cmd,
                      nextId, connOpen, budget, clock, lastOut>>

\* connection.go:713-738: FILEDATA is sent, the byte count advanced, and a
\* PROGRESS message follows when a threshold is crossed.
LoopSend(n, tid) ==
    LET x == xfer[n][tid]
        l == loops[n][tid]
        total == l.sent + ChunkSize
        progress == (total * 100) \div l.size
        report == total - l.lastProgressBytes > MiB \/ progress > l.lastProgress + 2
        w1 == SendMessage(Wire, n, NewBinaryMessage(MsgTypeFileData, l.chunk))
        w2 == IF report
              THEN SendMessage(w1, n, Msg(MsgTypeProgress, 0, x.name, l.size, NoSum,
                                          <<total>>, "", FALSE))
              ELSE w1
    IN /\ l.pc = "chunk"
       /\ x.status # TransferStatusFailed
       /\ net' = w2.net
       /\ pending' = w2.pending
       /\ xfer' = [xfer EXCEPT ![n][tid] =
                     IF report THEN UpdateProgress([@ EXCEPT !.bytes = total], total)
                     ELSE [@ EXCEPT !.bytes = total]]
       /\ loops' = [loops EXCEPT ![n][tid] =
                       [l EXCEPT !.pc = "loop", !.sent = total, !.chunk = 0,
                                 !.lastProgress = IF report THEN progress ELSE @,
                                 !.lastProgressBytes = IF report THEN total ELSE @]]
       /\ UNCHANGED <<codec, link, lk, cfg, disk, registry, handlers, retx, rchan, reader, cmd, nextId,
                      connOpen, budget, clock, lastOut>>

EndMsg(x, relId) == Msg(MsgTypeFileEnd, relId, x.name, 0, x.sum, <<>>, "", FALSE)

\* End of file (n == 0): FILEEND is sent reliably under a fresh id
\* (connection.go:704-706, 745-753).
LoopEof(n, tid) ==
    LET x == xfer[n][tid]
        l == loops[n][tid]
        relId == NewId(n)
        w == SendMessage(Wire, n, EndMsg(x, relId))
    IN /\ l.pc = "loop"
       /\ ~x.paused
       /\ x.closes = 0
       /\ x.pos >= Len(disk[n][x.name].data)
       /\ nextId' = [nextId EXCEPT ![n] = @ + 1]
       /\ handlers' = [handlers EXCEPT ![n] = Put(@, relId, "rel")]
       /\ net' = w.net
       /\ pending' = w.pending
       /\ loops' = [loops EXCEPT ![n][tid] = [l EXCEPT !.pc = "endWait", !.id = relId,
                                                       !.since = clock.now]]
       /\ UNCHANGED <<codec, link, lk, cfg, disk, xfer, registry, retx, rchan, reader, cmd, connOpen,
                      budget, clock, lastOut>>

\* The reliable send of FILEEND returned nil (connection.go:766-767), then the
\* deferred Close and RemoveTransfer run.
LoopEndOk(n, tid) ==
    LET l == loops[n][tid]
    IN /\ l.pc = "endWait"
       /\ ChanFull(n, l.id, "rel")
       /\ rchan' = [rchan EXCEPT ![n] = ChanDropId(@, l.id)]
       /\ handlers' = [handlers EXCEPT ![n] = UnregisterResponseHandler(@, l.id)]
       /\ xfer' = [xfer EXCEPT ![n] =
                     LoopExitX([@ EXCEPT ![tid].status = TransferStatusComplete], tid)]
       /\ registry' = [registry EXCEPT ![n] = LoopExitR(n, tid)]
       /\ loops' = [loops EXCEPT ![n] = Drop(@, tid)]
       /\ UNCHANGED <<codec, link, lk, cfg, disk, pending, net, retx, reader, cmd, nextId, connOpen,
                      budget, clock, lastOut>>

\* The reliable send of FILEEND timed out: another attempt under a new id, and
\* Failed after the last one (connection.go:752-764).
LoopEndTimeout(n, tid) ==
    LET x == xfer[n][tid]
        l == loops[n][tid]
        relId == NewId(n)
        w == SendMessage(Wire, n, EndMsg(x, relId))
    IN /\ l.pc = "endWait"
       /\ TimedOut(l.since, ReliableTimeout)
       /\ ~ChanFull(n, l.id, "rel")
       /\ IF l.attempt + 1 < EndAttempts
          THEN /\ nextId' = [nextId EXCEPT ![n] = @ + 1]
               /\ handlers' = [handlers EXCEPT ![n] = Put(UnregisterResponseHandler(@, l.id), relId, "rel")]
               /\ net' = w.net
               /\ pending' = w.pending
               /\ loops' = [loops EXCEPT ![n][tid] =
                               [l EXCEPT !.attempt = @ + 1, !.id = relId,
                                         !.since = clock.now]]
               /\ UNCHANGED <<xfer, registry>>
          ELSE /\ handlers' = [handlers EXCEPT ![n] = UnregisterResponseHandler(@, l.id)]
               /\ xfer' = [xfer EXCEPT ![n] =
                             LoopExitX([@ EXCEPT ![tid].status = TransferStatusFailed], tid)]
               /\ registry' = [registry EXCEPT ![n] = LoopExitR(n, tid)]
               /\ loops' = [loops EXCEPT ![n] = Drop(@, tid)]
               /\ UNCHANGED <<nextId, net, pending>>
       /\ UNCHANGED <<codec, link, lk, cfg, disk, retx, rchan, reader, cmd, connOpen, budget, clock, lastOut>>


\* ---- the read loop: handleMessage (connection.go:368-426) -----------------
\* The read loop is at ReadString and a line has arrived.  The loop is entered
\* only after Handshake has returned nil (connection.go:104-118).
ReadyAnyPhase(n) == reader[n].pc = "idle" /\ connOpen[n] /\ net[n] # <<>>

Ready(n) ==
    /\ link[n].phase = "open"
    /\ reader[n].pc = "idle" /\ connOpen[n] /\ net[n] # <<>>
HasHandlerUnlessAck(n, m) ==
    m.id # 0 /\ m.id \in DOMAIN handlers[n] /\ m.type # MsgTypeACK
HasHandler(n, m) == m.id # 0 /\ m.id \in DOMAIN handlers[n]

\* removePendingMessage (connection.go:337-341)
removePendingMessage(pend, id) == Drop(pend, id)

\* The head of handleMessage: the line is taken from the stream, a message
\* that requires an ACK is acknowledged with its id, an ACK clears the
\* pending entry of its id.
PreWire(n, m) ==
    LET w0 == [net |-> [net EXCEPT ![n] = Tail(@)], pending |-> pending]
        w1 == IF RequiresAck(m) /\ m.type # MsgTypeACK
              THEN SendMessage(w0, n, NewAckMessage(m.id)) ELSE w0
    IN IF m.type = MsgTypeACK
       THEN [w1 EXCEPT !.pending[n] = removePendingMessage(@, m.id)]
       ELSE w1

\* Some call still waits on the channels made for id.
Waiting(n, id) ==
    \/ cmd[n].pc # "idle" /\ cmd[n].id = id
    \/ \E tid \in DOMAIN loops[n] : loops[n][tid].pc = "endWait" /\ loops[n][tid].id = id

\* connection.go:393-402: a message whose id has a registered handler goes to
\* the handler and nowhere else.  The handler of a reliable send puts the
\* message on responseChan; the handler of executeRemoteCommand puts a
\* COMMANDRESULT on respChan and an ERROR on errChan.  A put on a full channel
\* blocks the read loop.
HandleResponse(n) ==
    /\ Ready(n)
    /\ LET m == Head(net[n])
           w == PreWire(n, m)
       IN /\ HasHandler(n, m)
          /\ LET kind == handlers[n][m.id]
                 push == kind = "rel" \/ m.type \in {MsgTypeCommandResult, MsgTypeError}
                 ch   == IF kind = "rel" THEN "rel"
                         ELSE IF m.type = MsgTypeCommandResult THEN "resp" ELSE "err"
                 val  == IF kind = "rel" THEN "" ELSE m.text
             IN IF push /\ ChanFull(n, m.id, ch)
                THEN /\ reader' = [reader EXCEPT ![n] =
                                     [IdleReader EXCEPT !.pc = "push", !.id = m.id,
                                                        !.ch = ch, !.val = val]]
                     /\ UNCHANGED rchan
                ELSE /\ rchan' = [rchan EXCEPT ![n] =
                                     IF push THEN ChanPut(@, m.id, ch, val) ELSE @]
                     /\ UNCHANGED reader
          /\ net' = w.net
          /\ pending' = w.pending
    /\ UNCHANGED <<codec, link, lk, cfg, disk, xfer, registry, handlers, retx, cmd, loops, nextId,
                   connOpen, budget, clock, lastOut>>

\* The blocked put completes once the channel has room.
PushDone(n) ==
    /\ reader[n].pc = "push"
    /\ ~ChanFull(n, reader[n].id, reader[n].ch)
    /\ rchan' = [rchan EXCEPT ![n] =
                    IF Waiting(n, reader[n].id)
                    THEN ChanPut(@, reader[n].id, reader[n].ch, reader[n].val) ELSE @]
    /\ reader' = [reader EXCEPT ![n] = IdleReader]
    /\ UNCHANGED <<codec, link, lk, cfg, disk, xfer, registry, handlers, pending, net, retx, cmd, loops,
                   nextId, connOpen, budget, clock, lastOut>>

\* handlePutCommand (connection.go:776-802)
handlePutCommand(n, m) ==
    IF m.path = "" THEN TextMsg(MsgTypeError, 0, "PUT requires a file path")
    ELSE IF cfg[n].writeOnly THEN TextMsg(MsgTypeError, 0, "write-only mode")
    ELSE IF ~canInitiateTransfer(n) THEN TextMsg(MsgTypeError, 0, "Too many active transfers")
    ELSE TextMsg(MsgTypeCommandResult, 0, "Ready to receive file")

\* handleCommand (connection.go:428-474) for COMMAND PUT: the reply carries
\* the id of the command.
HandlePutCmd(n) ==
    /\ Ready(n)
    /\ LET m == Head(net[n])
           w == SendMessage(PreWire(n, m), n, [handlePutCommand(n, m) EXCEPT !.id = m.id])
       IN /\ ~HasHandler(n, m)
          /\ m.type = MsgTypeCommand /\ m.text = "PUT"
          /\ net' = w.net
          /\ pending' = w.pending
    /\ UNCHANGED <<codec, link, lk, cfg, disk, xfer, registry, handlers, retx, rchan, reader, cmd, loops,
                   nextId, connOpen, budget, clock, lastOut>>

\* handleCommand for COMMAND GET: handleGetCommand runs on the read loop.  An
\* early return is answered at once; otherwise the read loop enters the wait
\* of SendReliableMessage(FILESTART).
HandleGetCmd(n) ==
    /\ Ready(n)
    /\ LET m == Head(net[n])
           w == PreWire(n, m)
           err == GetError(n, m.path)
       IN /\ ~HasHandler(n, m)
          /\ m.type = MsgTypeCommand /\ m.text = "GET"
          /\ IF err # "ok"
             THEN LET w2 == SendMessage(w, n, TextMsg(MsgTypeError, m.id, err))
                  IN /\ net' = w2.net
                     /\ pending' = w2.pending
                     /\ UNCHANGED <<xfer, registry, handlers, reader, nextId>>
             ELSE /\ LET g == GetBegin(n, m.path, w)
                     IN /\ xfer' = [xfer EXCEPT ![n] = g.xfer]
                        /\ registry' = [registry EXCEPT ![n] = g.registry]
                        /\ handlers' = [handlers EXCEPT ![n] = g.handlers]
                        /\ net' = g.wire.net
                        /\ pending' = g.wire.pending
                        /\ reader' = [reader EXCEPT ![n] =
                                        [IdleReader EXCEPT !.pc = "getWait", !.id = m.id,
                                                           !.tid = g.tid, !.rel = g.rel,
                                                           !.since = clock.now]]
                  /\ nextId' = [nextId EXCEPT ![n] = @ + 1]
    /\ UNCHANGED <<codec, link, lk, cfg, disk, retx, rchan, cmd, loops, connOpen, budget, clock, lastOut>>

\* The wait of SendReliableMessage made on the read loop ends with its timer:
\* the response is a line that only this read loop could read
\* (connection.go:363-364, 672-679, 472-473).
ReaderGetTimeout(n) ==
    /\ reader[n].pc = "getWait"
    /\ clock.timed => clock.now - reader[n].since >= ReliableTimeout
    /\ LET w == SendMessage(Wire, n, TextMsg(MsgTypeError, reader[n].id,
                                             "Failed to send file start"))
       IN /\ net' = w.net
          /\ pending' = w.pending
    /\ handlers' = [handlers EXCEPT ![n] = UnregisterResponseHandler(@, reader[n].rel)]
    /\ xfer' = [xfer EXCEPT ![n] = GetAbortX(n, reader[n].tid)]
    /\ registry' = [registry EXCEPT ![n] = GetAbortR(n, reader[n].tid)]
    /\ reader' = [reader EXCEPT ![n] = IdleReader]
    /\ UNCHANGED <<codec, link, lk, cfg, disk, retx, rchan, cmd, loops, nextId, connOpen, budget,
                   clock, lastOut>>


\* ---- the file-transfer handlers -------------------------------------------
\* The early returns of handleFileStart (connection.go:1031-1070).
FileStartError(n, m) ==
    IF ~isPathSafe(m.path) THEN "Access denied"
    ELSE IF cfg[n].maxSize > 0 /\ m.size > cfg[n].maxSize * 1024 * 1024
         THEN "File size exceeds maximum"
    ELSE IF cfg[n].writeOnly THEN "write-only mode"
    ELSE "ok"

\* handleFileStart (connection.go:1031-1092): os.Create truncates the path,
\* a receive-transfer with the announced checksum is registered.
HandleFileStart(n) ==
    /\ Ready(n)
    /\ LET m == Head(net[n])
           w == PreWire(n, m)
           err == FileStartError(n, m)
       IN /\ ~HasHandler(n, m)
          /\ m.type = MsgTypeFileStart
          /\ IF err # "ok"
             THEN LET w2 == SendError(w, n, err)
                  IN /\ net' = w2.net
                     /\ pending' = w2.pending
                     /\ UNCHANGED <<disk, xfer, registry>>
             ELSE /\ LET t0 == NewFileTransfer(m.path, m.size, TransferTypeReceive)
                         a  == AddTransfer(registry[n], xfer[n],
                                           [t0 EXCEPT !.file = TRUE, !.sum = m.sum])
                     IN /\ xfer' = [xfer EXCEPT ![n] = a.xfer]
                        /\ registry' = [registry EXCEPT ![n] = a.registry]
                  /\ disk' = [disk EXCEPT ![n][m.path] = [exists |-> TRUE, data |-> <<>>]]
                  /\ net' = w.net
                  /\ pending' = w.pending
    /\ UNCHANGED <<codec, link, lk, cfg, handlers, retx, rchan, reader, cmd, loops, nextId, connOpen,
                   budget, clock, lastOut>>

\* The transfers handleFileData may pick (connection.go:1098-1103): the first
\* in-progress receive-transfer in the iteration order of the map.
DataTargets(n) ==
    {tid \in GetTransfers(n) : /\ xfer[n][tid].type = TransferTypeReceive
                               /\ xfer[n][tid].status = TransferStatusInProgress}

\* handleFileData (connection.go:1094-1148); fail = TRUE is the run in which
\* File.Write returns an error.
HandleFileData(n, fail) ==
    /\ Ready(n)
    /\ LET m == Head(net[n])
           w == PreWire(n, m)
       IN /\ ~HasHandler(n, m)
          /\ m.type = MsgTypeFileData
          /\ IF DataTargets(n) = {}
             THEN LET w2 == SendError(w, n, "No active file transfer")
                  IN /\ ~fail
                     /\ net' = w2.net
                     /\ pending' = w2.pending
                     /\ UNCHANGED <<disk, xfer, budget>>
             ELSE \E tid \in DataTargets(n) :
                    LET x == xfer[n][tid]
                        c == DecodePayload(m)[1]
                        bytes == x.bytes + ChunkSize
                        progress == IF x.size > 0 THEN (bytes * 100) \div x.size ELSE 0
                    IN IF ~x.file
                       THEN /\ ~fail
                            /\ LET w2 == SendError(w, n, "File not open for writing")
                               IN net' = w2.net /\ pending' = w2.pending
                            /\ UNCHANGED <<disk, xfer, budget>>
                       ELSE IF ~fail
                       THEN /\ disk' = [disk EXCEPT ![n][x.name].data = WriteAt(@, x.pos, c)]
                            /\ xfer' = [xfer EXCEPT ![n][tid] =
                                  IF x.size > 0 /\ progress > x.lastProgress + 4
                                  THEN UpdateProgress(
                                          [x EXCEPT !.pos = @ + 1, !.lastProgress = progress],
                                          bytes)
                                  ELSE [x EXCEPT !.pos = @ + 1, !.bytes = bytes]]
                            /\ net' = w.net
                            /\ pending' = w.pending
                            /\ UNCHANGED budget
                       ELSE /\ budget.ioerr < MaxIoErr
                            /\ budget' = [budget EXCEPT !.ioerr = @ + 1]
                            /\ LET w2 == SendError(w, n, "Failed to write file")
                               IN net' = w2.net /\ pending' = w2.pending
                            /\ xfer' = [xfer EXCEPT ![n][tid].status = TransferStatusFailed]
                            /\ UNCHANGED disk
    /\ UNCHANGED <<codec, link, lk, cfg, registry, handlers, retx, rchan, reader, cmd, loops, nextId,
                   connOpen, clock, lastOut>>

\* The transfer handleFileEnd works on (connection.go:1161-1166).
EndTargets(n, path) ==
    {tid \in GetTransfers(n) : /\ xfer[n][tid].type = TransferTypeReceive
                               /\ xfer[n][tid].name = path}

\* The checksum comparison of handleFileEnd (connection.go:1179-1205) finds a
\* mismatch: Verify is set, FILEEND carries a checksum, the file can be read
\* and its SHA-256 differs.
ChecksumMismatch(n, m) ==
    /\ cfg[n].verify
    /\ m.sum # NoSum
    /\ disk[n][m.path].exists
    /\ Sha(disk[n][m.path].data) # m.sum

\* handleFileEnd (connection.go:1150-1223)
HandleFileEnd(n) ==
    /\ Ready(n)
    /\ LET m == Head(net[n])
           w == PreWire(n, m)
       IN /\ ~HasHandler(n, m)
          /\ m.type = MsgTypeFileEnd
          /\ IF EndTargets(n, m.path) = {}
             THEN LET w2 == SendError(w, n, "No active file transfer for path")
                  IN /\ net' = w2.net
                     /\ pending' = w2.pending
                     /\ UNCHANGED <<disk, xfer, registry>>
             ELSE \E tid \in EndTargets(n, m.path) :
                    LET x  == xfer[n][tid]
                        xc == IF x.file THEN [CloseHandle(x) EXCEPT !.file = FALSE] ELSE x
                    IN IF ChecksumMismatch(n, m)
                       THEN LET w2 == SendError(w, n, "Checksum verification failed")
                            IN /\ xfer' = [xfer EXCEPT ![n][tid] =
                                             [xc EXCEPT !.status = TransferStatusFailed]]
                               /\ disk' = [disk EXCEPT ![n][m.path] = NoFile]
                               /\ net' = w2.net
                               /\ pending' = w2.pending
                               /\ UNCHANGED registry
                       ELSE LET w2 == SendTimes(w, n, FileAck(m.path), AckRepeats)
                            IN /\ xfer' = [xfer EXCEPT ![n][tid] =
                                             [xc EXCEPT !.status = TransferStatusComplete]]
                               /\ registry' = [registry EXCEPT ![n] = RemoveTransfer(@, x)]
                               /\ net' = w2.net
                               /\ pending' = w2.pending
                               /\ UNCHANGED disk
    /\ UNCHANGED <<codec, link, lk, cfg, handlers, retx, rchan, reader, cmd, loops, nextId, connOpen,
                   budget, clock, lastOut>>

\* handleProgress (connection.go:1225-1250)
HandleProgress(n) ==
    /\ Ready(n)
    /\ LET m == Head(net[n])
           w == PreWire(n, m)
           hit == {tid \in GetTransfers(n) : xfer[n][tid].name = m.path}
       IN /\ ~HasHandler(n, m)
          /\ m.type = MsgTypeProgress
          /\ xfer' = [xfer EXCEPT ![n] =
                        [tid \in DOMAIN @ |->
                            IF tid \in hit
                            THEN UpdateProgress([@[tid] EXCEPT !.size = m.size],
                                                m.payload[1])
                            ELSE @[tid]]]
          /\ net' = w.net
          /\ pending' = w.pending
    /\ UNCHANGED <<codec, link, lk, cfg, disk, registry, handlers, retx, rchan, reader, cmd, loops, nextId,
                   connOpen, budget, clock, lastOut>>

\* The transfers handleAck completes (connection.go:1255-1261).
AckTargets(n, path) ==
    {tid \in GetTransfers(n) :
        /\ xfer[n][tid].name = path
        /\ xfer[n][tid].status \in {TransferStatusWaitingAck, TransferStatusInProgress}}

\* An ACK without a registered handler: handleAck (connection.go:1252-1269).
HandleAck(n) ==
    /\ Ready(n)
    /\ LET m == Head(net[n])
           w == PreWire(n, m)
           hit == AckTargets(n, m.path)
       IN /\ ~HasHandler(n, m)
          /\ m.type = MsgTypeACK
          /\ xfer' = [xfer EXCEPT ![n] =
                        [tid \in DOMAIN @ |->
                            IF tid \in hit
                            THEN [@[tid] EXCEPT !.status = TransferStatusComplete]
                            ELSE @[tid]]]
          /\ registry' = [registry EXCEPT ![n] =
                            IF hit = {} THEN @ ELSE Drop(@, m.path)]
          /\ net' = w.net
          /\ pending' = w.pending
    /\ UNCHANGED <<codec, link, lk, cfg, disk, handlers, retx, rchan, reader, cmd, loops, nextId,
                   connOpen, budget, clock, lastOut>>

\* ERROR and COMMANDRESULT without a registered handler are printed
\* (connection.go:417-422).
HandlePrinted(n) ==
    /\ Ready(n)
    /\ LET m == Head(net[n])
           w == PreWire(n, m)
       IN /\ ~HasHandler(n, m)
          /\ m.type \in {MsgTypeError, MsgTypeCommandResult}
          /\ net' = w.net
          /\ pending' = w.pending
    /\ UNCHANGED <<codec, link, lk, cfg, disk, xfer, registry, handlers, retx, rchan, reader, cmd, loops,
                   nextId, connOpen, budget, clock, lastOut>>


\* ---- PAUSE, RESUME, CANCEL (part_007:675-757) -----------------------------
Found(reg, id) == id \in Range(reg)

\* handlePauseTransfer: the transfer with the id, looked up among the
\* registered transfers, is paused.
UserPause(n, id) ==
    /\ cmd[n].pc = "idle"
    /\ Typed(n, "PAUSE", "", id)
    /\ IF Found(registry[n], id)
       THEN /\ xfer' = [xfer EXCEPT ![n][id] = Pause(@)]
            /\ lastOut' = [lastOut EXCEPT ![n] =
                              IF xfer[n][id].status = TransferStatusInProgress THEN "paused" ELSE "ok"]
       ELSE /\ lastOut' = [lastOut EXCEPT ![n] = "no active transfer"]
            /\ UNCHANGED xfer
    /\ budget' = Done(n)
    /\ UNCHANGED <<codec, link, lk, cfg, disk, registry, handlers, pending, net, retx, rchan, reader, cmd,
                   loops, nextId, connOpen, clock>>

\* handleResumeTransfer
UserResume(n, id) ==
    /\ cmd[n].pc = "idle"
    /\ Typed(n, "RESUME", "", id)
    /\ IF Found(registry[n], id)
       THEN /\ xfer' = [xfer EXCEPT ![n][id] = Resume(@)]
            /\ lastOut' = [lastOut EXCEPT ![n] =
                              IF xfer[n][id].status = TransferStatusPaused THEN "resumed" ELSE "ok"]
       ELSE /\ lastOut' = [lastOut EXCEPT ![n] = "no active transfer"]
            /\ UNCHANGED xfer
    /\ budget' = Done(n)
    /\ UNCHANGED <<codec, link, lk, cfg, disk, registry, handlers, pending, net, retx, rchan, reader, cmd,
                   loops, nextId, connOpen, clock>>

\* handleCancelTransfer as a function of the transfers xs, the registry reg
\* and the id: the new transfers, the new registry and the error returned.
CancelTransfer(xs, reg, id) ==
    IF Found(reg, id)
    THEN [xfer |-> [xs EXCEPT ![id] =
                       [(IF @.file THEN [CloseHandle(@) EXCEPT !.file = FALSE] ELSE @)
                           EXCEPT !.status = TransferStatusFailed]],
          registry |-> RemoveTransfer(reg, xs[id]),
          out |-> "ok"]
    ELSE [xfer |-> xs, registry |-> reg, out |-> "no active transfer"]

UserCancel(n, id) ==
    /\ cmd[n].pc = "idle"
    /\ Typed(n, "CANCEL", "", id)
    /\ LET r == CancelTransfer(xfer[n], registry[n], id)
       IN /\ xfer' = [xfer EXCEPT ![n] = r.xfer]
          /\ registry' = [registry EXCEPT ![n] = r.registry]
          /\ lastOut' = [lastOut EXCEPT ![n] = r.out]
    /\ budget' = Done(n)
    /\ UNCHANGED <<codec, link, lk, cfg, disk, handlers, pending, net, retx, rchan, reader, cmd,
                   loops, nextId, connOpen, clock>>

\* ---- GET typed by the user (part_007:156-179, 418-425, 795-840) -----------
\* Execute refuses GET during an active transfer.  executeRemoteCommand
\* registers its handler under a fresh id and sends the COMMAND with
\* SendReliableMessage, which registers its own handler under the same id.
UserGet(n, name) ==
    /\ cmd[n].pc = "idle"
    /\ connOpen[n]
    /\ Typed(n, "GET", name, 0)
    /\ IF IsActiveTransferInProgress(n)
       THEN /\ lastOut' = [lastOut EXCEPT ![n] =
                             "cannot execute this command during active transfers"]
            /\ UNCHANGED <<handlers, net, pending, cmd, nextId>>
       ELSE /\ LET id == NewId(n)
                   w  == SendMessage(Wire, n, CmdMsg(id, "GET", name))
               IN /\ handlers' = [handlers EXCEPT ![n] = Put(Put(@, id, "cmd"), id, "rel")]
                  /\ net' = w.net
                  /\ pending' = w.pending
                  /\ cmd' = [cmd EXCEPT ![n] = [IdleCmd EXCEPT !.pc = "getRel", !.id = id,
                                                     !.path = name, !.since = clock.now]]
            /\ nextId' = [nextId EXCEPT ![n] = @ + 1]
            /\ UNCHANGED lastOut
    /\ budget' = Done(n)
    /\ UNCHANGED <<codec, link, lk, cfg, disk, xfer, registry, retx, rchan, reader, loops, connOpen,
                   clock>>

\* SendReliableMessage(COMMAND) returns nil and unregisters the id; the
\* caller goes on to wait for the result (part_007:828-839).
CmdGetRelOk(n) ==
    /\ cmd[n].pc = "getRel"
    /\ ChanFull(n, cmd[n].id, "rel")
    /\ rchan' = [rchan EXCEPT ![n] = ChanDropId(@, cmd[n].id)]
    /\ handlers' = [handlers EXCEPT ![n] = UnregisterResponseHandler(@, cmd[n].id)]
    /\ cmd' = [cmd EXCEPT ![n].pc = "getResult", ![n].since = clock.now]
    /\ UNCHANGED <<codec, link, lk, cfg, disk, xfer, registry, pending, net, retx, reader, loops,
                   nextId, connOpen, budget, clock, lastOut>>

\* SendReliableMessage(COMMAND) returns the timeout error
\* (connection.go:363-364); executeRemoteCommand passes it on.
CmdGetRelTimeout(n) ==
    /\ cmd[n].pc = "getRel"
    /\ TimedOut(cmd[n].since, ReliableTimeout)
    /\ ~ChanFull(n, cmd[n].id, "rel")
    /\ handlers' = [handlers EXCEPT ![n] = UnregisterResponseHandler(@, cmd[n].id)]
    /\ cmd' = [cmd EXCEPT ![n] = [IdleCmd EXCEPT !.id = cmd[n].id]]
    /\ lastOut' = [lastOut EXCEPT ![n] = "reliable message timed out"]
    /\ UNCHANGED <<codec, link, lk, cfg, disk, xfer, registry, pending, net, retx, rchan, reader, loops,
                   nextId, connOpen, budget, clock>>

\* No handler is left under the id, so the select of executeRemoteCommand
\* ends with its 10 s timer (part_007:832-839).
CmdGetResultTimeout(n) ==
    /\ cmd[n].pc = "getResult"
    /\ clock.timed => clock.now - cmd[n].since >= CommandTimeout
    /\ cmd' = [cmd EXCEPT ![n] = IdleCmd]
    /\ lastOut' = [lastOut EXCEPT ![n] = "command timed out"]
    /\ UNCHANGED <<codec, link, lk, cfg, disk, xfer, registry, handlers, pending, net, retx, rchan, reader,
                   loops, nextId, connOpen, budget, clock>>

\* GET name when the SendMessage inside SendReliableMessage fails
\* (part_007:811-831, connection.go:350-358, 262-275): both handlers were
\* registered under the fresh id and both deferred unregistrations run; the
\* write error closes a client-role connection, as in UserMsgFails.
UserGetFails(n, name, stage) ==
    /\ cmd[n].pc = "idle"
    /\ connOpen[n]
    /\ Typed(n, "GET", name, 0)
    /\ ~IsActiveTransferInProgress(n)
    /\ budget.ioerr < MaxIoErr
    /\ handlers' = [handlers EXCEPT ![n] =
                       UnregisterResponseHandler(Put(Put(@, NewId(n), "cmd"), NewId(n), "rel"), NewId(n))]
    /\ nextId' = [nextId EXCEPT ![n] = @ + 1]
    /\ IF stage = "write" /\ link[n].isClient
       THEN /\ link' = Close([link EXCEPT ![n].werr = stage], n)
            /\ connOpen' = [connOpen EXCEPT ![n] = FALSE]
       ELSE /\ link' = [link EXCEPT ![n].werr = stage]
            /\ UNCHANGED connOpen
    /\ lastOut' = [lastOut EXCEPT ![n] = "failed to send command"]
    /\ budget' = [Done(n) EXCEPT !.ioerr = @ + 1]
    /\ UNCHANGED <<codec, lk, cfg, disk, xfer, registry, pending, net,
                   retx, rchan, reader, cmd, loops, clock>>

\* MSG text (part_007:170-179, 650-672): gated like every command outside
\* allowedDuringTransfer; otherwise one MESSAGE through SendMessage.
UserMsg(n) ==
    /\ cmd[n].pc = "idle"
    /\ connOpen[n]
    /\ Typed(n, "MSG", "", 0)
    /\ IF IsActiveTransferInProgress(n)
       THEN /\ lastOut' = [lastOut EXCEPT ![n] =
                             "cannot execute this command during active transfers"]
            /\ UNCHANGED <<net, pending>>
       ELSE /\ LET w == SendMessage(Wire, n, TextMsg(MsgTypeMessage, 0, "hello"))
               IN /\ net' = w.net
                  /\ pending' = w.pending
            /\ lastOut' = [lastOut EXCEPT ![n] = "ok"]
    /\ budget' = Done(n)
    /\ UNCHANGED <<codec, link, lk, cfg, disk, xfer, registry, handlers, retx, rchan,
                   reader, cmd, loops, nextId, connOpen, clock>>

\* MSG text when SendMessage fails (connection.go:262-275): an error of
\* WriteString closes a client-role connection and nothing else; an error of
\* Flush is logged and returned.  Nothing reaches the peer.
UserMsgFails(n, stage) ==
    /\ cmd[n].pc = "idle"
    /\ connOpen[n]
    /\ Typed(n, "MSG", "", 0)
    /\ ~IsActiveTransferInProgress(n)
    /\ budget.ioerr < MaxIoErr
    /\ IF stage = "write" /\ link[n].isClient
       THEN /\ link' = Close([link EXCEPT ![n].werr = stage], n)
            /\ connOpen' = [connOpen EXCEPT ![n] = FALSE]
       ELSE /\ link' = [link EXCEPT ![n].werr = stage]
            /\ UNCHANGED connOpen
    /\ lastOut' = [lastOut EXCEPT ![n] = "failed to send message"]
    /\ budget' = [Done(n) EXCEPT !.ioerr = @ + 1]
    /\ UNCHANGED <<codec, lk, cfg, disk, xfer, registry, handlers, pending, net,
                   retx, rchan, reader, cmd, loops, nextId, clock>>

\* ---- the command loop (part_008:56-80) -------------------------------------
\* One pass of StartCommandInterface with a line typed while a transfer is
\* InProgress or Paused: the loop prints its refusal and reads the next line;
\* Execute is not called.
LoopRefuses(n) ==
    /\ cmd[n].pc = "idle"
    /\ budget.script[n] # <<>>
    /\ IsActiveTransferInProgress(n)
    /\ lastOut' = [lastOut EXCEPT ![n] =
                      "Cannot execute commands while transfers are in progress."]
    /\ budget' = Done(n)
    /\ UNCHANGED <<codec, link, lk, cfg, disk, xfer, registry, handlers, pending, net,
                   retx, rchan, reader, cmd, loops, nextId, connOpen, clock>>

\* One pass of the loop with no transfer active: Execute runs the command.
LoopPause(n, id) == ~IsActiveTransferInProgress(n) /\ UserPause(n, id)
LoopMsg(n) == ~IsActiveTransferInProgress(n) /\ UserMsg(n)

\* ---- PUTM (command.go:399-442, connection.go:980-1000) --------------------
\* util.FindMatchingFiles (util/file.go:138-190): the files of the folder
\* whose base name matches the pattern, in the order of the walk.
Pattern == "[fg]"

FindMatchingFiles(n, pattern) ==
    LET hit(name) == pattern = Pattern /\ name \in {"f", "g"} /\ disk[n][name].exists
    IN (IF hit("f") THEN <<"f">> ELSE <<>>) \o (IF hit("g") THEN <<"g">> ELSE <<>>)

\* handlePutMultiple up to the wait of executeRemoteCommand("PUTM").
UserPutM(n) ==
    /\ cmd[n].pc = "idle"
    /\ connOpen[n]
    /\ Typed(n, "PUTM", Pattern, 0)
    /\ LET matches == FindMatchingFiles(n, Pattern)
       IN IF matches = <<>>
          THEN /\ lastOut' = [lastOut EXCEPT ![n] = "no files match the pattern"]
               /\ UNCHANGED <<handlers, net, pending, cmd, nextId>>
          ELSE /\ LET id == NewId(n)
                      w  == SendMessage(Wire, n, CmdMsg(id, "PUTM", Pattern))
                  IN /\ handlers' = [handlers EXCEPT ![n] = Put(@, id, "cmd")]
                     /\ net' = w.net
                     /\ pending' = w.pending
                     /\ cmd' = [cmd EXCEPT ![n] =
                                  [IdleCmd EXCEPT !.pc = "putmWait", !.id = id,
                                                  !.rest = matches, !.since = clock.now]]
               /\ nextId' = [nextId EXCEPT ![n] = @ + 1]
               /\ UNCHANGED lastOut
    /\ budget' = Done(n)
    /\ UNCHANGED <<codec, link, lk, cfg, disk, xfer, registry, retx, rchan, reader, loops, connOpen,
                   clock>>

\* handlePutMultipleCommand (connection.go:980-1000): no admission check.
handlePutMultipleCommand(n, m) ==
    IF m.path = "" THEN TextMsg(MsgTypeError, 0, "PUTM requires a file pattern")
    ELSE IF cfg[n].writeOnly THEN TextMsg(MsgTypeError, 0, "write-only mode")
    ELSE TextMsg(MsgTypeCommandResult, 0, "Ready to receive multiple files")

\* handleCommand for COMMAND PUTM.
HandlePutMCmd(n) ==
    /\ Ready(n)
    /\ LET m == Head(net[n])
           w == SendMessage(PreWire(n, m), n,
                            [handlePutMultipleCommand(n, m) EXCEPT !.id = m.id])
       IN /\ ~HasHandler(n, m)
          /\ m.type = MsgTypeCommand /\ m.text = "PUTM"
          /\ net' = w.net
          /\ pending' = w.pending
    /\ UNCHANGED <<codec, link, lk, cfg, disk, xfer, registry, handlers, retx, rchan, reader, cmd, loops,
                   nextId, connOpen, budget, clock, lastOut>>

\* executeRemoteCommand("PUTM") returns: on "Ready to receive ..." the loop
\* over the matches is entered (command.go:423-439), otherwise handlePutMultiple
\* returns.
CmdPutMResult(n) ==
    /\ cmd[n].pc = "putmWait"
    /\ \E e \in rchan[n] :
        /\ e.id = cmd[n].id
        /\ IF e.ch = "resp" /\ e.val = "Ready to receive multiple files"
           THEN /\ cmd' = [cmd EXCEPT ![n].pc = "putmNext"]
                /\ UNCHANGED lastOut
           ELSE /\ cmd' = [cmd EXCEPT ![n] = IdleCmd]
                /\ lastOut' = [lastOut EXCEPT ![n] =
                                  IF e.ch = "err" THEN "remote error" ELSE "ok"]
    /\ rchan' = [rchan EXCEPT ![n] = ChanDropId(@, cmd[n].id)]
    /\ handlers' = [handlers EXCEPT ![n] = UnregisterResponseHandler(@, cmd[n].id)]
    /\ UNCHANGED <<codec, link, lk, cfg, disk, xfer, registry, pending, net, retx, reader, loops,
                   nextId, connOpen, budget, clock>>

\* One pass of the loop over the matches (command.go:429-441): after the
\* last file handlePutMultiple returns; otherwise handleGetCommand is called
\* for the next file on the command task and its reply dropped.
CmdPutMNext(n) ==
    /\ cmd[n].pc = "putmNext"
    /\ IF cmd[n].rest = <<>>
       THEN /\ cmd' = [cmd EXCEPT ![n] = IdleCmd]
            /\ lastOut' = [lastOut EXCEPT ![n] = "ok"]
            /\ UNCHANGED <<xfer, registry, handlers, net, pending, nextId>>
       ELSE /\ IF GetError(n, Head(cmd[n].rest)) # "ok"
               THEN /\ cmd' = [cmd EXCEPT ![n].rest = Tail(@)]
                    /\ UNCHANGED <<xfer, registry, handlers, net, pending, nextId>>
               ELSE /\ LET g == GetBegin(n, Head(cmd[n].rest), Wire)
                       IN /\ xfer' = [xfer EXCEPT ![n] = g.xfer]
                          /\ registry' = [registry EXCEPT ![n] = g.registry]
                          /\ handlers' = [handlers EXCEPT ![n] = g.handlers]
                          /\ net' = g.wire.net
                          /\ pending' = g.wire.pending
                          /\ cmd' = [cmd EXCEPT ![n] =
                                       [IdleCmd EXCEPT !.pc = "putmStart", !.id = g.rel,
                                                       !.path = Head(cmd[n].rest),
                                                       !.tid = g.tid, !.rest = Tail(cmd[n].rest),
                                                       !.since = clock.now]]
                    /\ nextId' = [nextId EXCEPT ![n] = @ + 1]
            /\ UNCHANGED lastOut
    /\ UNCHANGED <<codec, link, lk, cfg, disk, retx, rchan, reader, loops, connOpen, budget, clock>>

\* SendReliableMessage(FILESTART) returns nil: the send goroutine of the file
\* is started and the loop goes on to the next match after its 100 ms sleep
\* (connection.go:681, command.go:439-440).
CmdPutMStarted(n) ==
    /\ cmd[n].pc = "putmStart"
    /\ ChanFull(n, cmd[n].id, "rel")
    /\ rchan' = [rchan EXCEPT ![n] = ChanDropId(@, cmd[n].id)]
    /\ handlers' = [handlers EXCEPT ![n] = UnregisterResponseHandler(@, cmd[n].id)]
    /\ loops' = [loops EXCEPT ![n] = Put(@, cmd[n].tid, [NewLoop EXCEPT !.size = xfer[n][cmd[n].tid].size])]
    /\ cmd' = [cmd EXCEPT ![n] = [IdleCmd EXCEPT !.pc = "putmNext", !.rest = cmd[n].rest]]
    /\ UNCHANGED <<codec, link, lk, cfg, disk, xfer, registry, pending, net, retx, reader,
                   nextId, connOpen, budget, clock, lastOut>>

\* SendReliableMessage(FILESTART) times out: the file is closed, the transfer
\* removed, and the loop goes on to the next match (connection.go:672-679).
CmdPutMStartTimeout(n) ==
    /\ cmd[n].pc = "putmStart"
    /\ TimedOut(cmd[n].since, ReliableTimeout)
    /\ ~ChanFull(n, cmd[n].id, "rel")
    /\ handlers' = [handlers EXCEPT ![n] = UnregisterResponseHandler(@, cmd[n].id)]
    /\ xfer' = [xfer EXCEPT ![n] = GetAbortX(n, cmd[n].tid)]
    /\ registry' = [registry EXCEPT ![n] = GetAbortR(n, cmd[n].tid)]
    /\ cmd' = [cmd EXCEPT ![n] = [IdleCmd EXCEPT !.pc = "putmNext", !.rest = cmd[n].rest]]
    /\ UNCHANGED <<codec, link, lk, cfg, disk, pending, net, retx, rchan, reader, loops,
                   nextId, connOpen, budget, clock, lastOut>>

\* ---- the retry sweep (connection.go:300-335) ------------------------------
\* waitTime := initialWait * (1 << RetryCount), in units of 100 ms.
WaitTime(retry) == initialWait * (2 ^ retry)

NeverExhausted(p) == FALSE

Exhausted(p) == p.retry >= maxRetries

\* A pass that stamps the entries in due without counting them.
SweepPendingUncounted(pend, due, now) ==
    [id \in {i \in DOMAIN pend : ~Exhausted(pend[i])} |->
        IF id \in due
        THEN [pend[id] EXCEPT !.last = now]
        ELSE pend[id]]

\* One pass of the sweep over the pending map: an exhausted entry is dropped,
\* an entry in due is counted and stamped.
SweepPending(pend, due, now) ==
    [id \in {i \in DOMAIN pend : ~Exhausted(pend[i])} |->
        IF id \in due
        THEN [pend[id] EXCEPT !.retry = @ + 1, !.last = now]
        ELSE pend[id]]

\* The clones handed to the retransmitting goroutines: RetryCount of the
\* stored message plus one.
SweepClones(pend, due) ==
    {[pend[id].msg EXCEPT !.retry = @ + 1] : id \in due}

DueNow(n) ==
    {id \in DOMAIN pending[n] :
        ~Exhausted(pending[n][id]) /\
        clock.now - pending[n][id].last > WaitTime(pending[n][id].retry)}

Sweep(n) ==
    /\ ~link[n].exited
    /\ \E due \in SUBSET {i \in DOMAIN pending[n] : ~Exhausted(pending[n][i])} :
        /\ IF clock.timed
           THEN /\ clock.now % SweepPeriod = 0
                /\ n \notin clock.swept
                /\ due = DueNow(n)
                /\ clock' = [clock EXCEPT !.swept = @ \cup {n}]
                /\ UNCHANGED budget
           ELSE /\ due # {} \/ \E i \in DOMAIN pending[n] : Exhausted(pending[n][i])
                /\ budget.retx + Cardinality(due) <= MaxRetx
                /\ budget' = [budget EXCEPT !.retx = @ + Cardinality(due)]
                /\ UNCHANGED clock
        /\ pending' = [pending EXCEPT ![n] = SweepPending(@, due, clock.now)]
        /\ retx' = [retx EXCEPT ![n] = @ \cup SweepClones(pending[n], due)]
    /\ UNCHANGED <<codec, link, lk, cfg, disk, xfer, registry, handlers, net, rchan, reader, cmd, loops,
                   nextId, connOpen, lastOut>>

\* A retransmission that would be placed ahead of the lines already written.
RetxOvertakes(n) ==
    /\ \E m \in retx[n] :
        /\ net' = [net EXCEPT ![Peer(n)] = <<Marshal(m)>> \o @]
        /\ retx' = [retx EXCEPT ![n] = @ \ {m}]
    /\ UNCHANGED <<codec, link, lk, cfg, disk, xfer, registry, handlers, pending, rchan, reader, cmd, loops,
                   nextId, connOpen, budget, clock, lastOut>>

\* A retransmitting goroutine takes sendMutex and writes its clone
\* (connection.go:322-330); the errors of WriteString and Flush are dropped,
\* and on a closed socket nothing reaches the peer.
RetxWrite(n) ==
    /\ \E m \in retx[n] :
        /\ net' = [net EXCEPT ![Peer(n)] =
                      IF connOpen[n] THEN Append(@, Marshal(m)) ELSE @]
        /\ retx' = [retx EXCEPT ![n] = @ \ {m}]
    /\ UNCHANGED <<codec, link, lk, cfg, disk, xfer, registry, handlers, pending, rchan, reader, cmd, loops,
                   nextId, connOpen, budget, clock, lastOut>>


\* ---- time (timed specification only) --------------------------------------
\* The waits that are running, as pairs <<since, limit>>.
RunningWaits ==
    {<<cmd[n].since, ReliableTimeout>> : n \in {k \in Nodes : cmd[k].pc \in {"getRel", "startWait"}}}
    \cup {<<cmd[n].since, CommandTimeout>> : n \in {k \in Nodes : cmd[k].pc \in {"getResult", "putWait"}}}
    \cup {<<reader[n].since, ReliableTimeout>> : n \in {k \in Nodes : reader[k].pc = "getWait"}}

\* 100 ms pass.  The tickers and timers of the program are punctual: the
\* sweep due at this instant has run, the retransmitting goroutines have
\* written, and no wait is past its limit.
Tick ==
    /\ clock.timed
    /\ clock.now < MaxClock
    /\ \/ RunningWaits # {}
       \/ \E n \in Nodes : pending[n] # <<>>
       \/ clock.now < SweepPeriod
    /\ clock.now % SweepPeriod = 0 => clock.swept = Nodes
    /\ \A n \in Nodes : retx[n] = {}
    /\ \A w \in RunningWaits : clock.now - w[1] < w[2]
    /\ clock' = [clock EXCEPT !.now = @ + 1, !.swept = {}]
    /\ UNCHANGED <<codec, link, lk, cfg, disk, xfer, registry, handlers, pending, net, retx, rchan,
                   reader, cmd, loops, nextId, connOpen, budget, lastOut>>


\* ---- keep-alive and the read deadline (connection.go:118-139, 196-244) ----
\* sendPing names its ping "ping-" and the nanoseconds of the node's clock.
PingId(n, t) == (IF n = "A" THEN 10000 ELSE 20000) + t
PingTime(id) == id % 10000

\* One tick of the health ticker (connection.go:200-207), every 10 s while
\* the ticker is not stopped.  A ping is sent when nothing was received for
\* more than 25 s and the last ping is more than 10 s old; then
\* checkActivePings drops the pings older than 30 s.  The loop looks at the
\* clock a little after the tick, and sendPing stamps a little after that:
\* an age of exactly one limit on the ticks may compare either way (late).
HealthCheck(n) ==
    /\ clock.timed
    /\ link[n].phase = "open"
    /\ clock.now > 0 /\ clock.now % HealthPeriod = 0
    /\ link[n].checked # clock.now
    /\ \E late \in BOOLEAN :
         LET l     == link[n]
             now   == clock.now
             Over(age, limit) == age > limit \/ (age = limit /\ late)
             send  == /\ now - l.lastRecv > QuietLimit
                      /\ l.lastPing = Never \/ Over(now - l.lastPing, PingGap)
             id    == PingId(n, now)
             sent  == IF send THEN l.pings \cup {[id |-> id, sent |-> now]}
                      ELSE l.pings
             w     == IF send THEN SendMessage(Wire, n, TextMsg(MsgTypePing, id, ""))
                      ELSE Wire
         IN /\ handlers' = [handlers EXCEPT ![n] =
                               IF send THEN Put(@, id, "ping") ELSE @]
            /\ net' = w.net
            /\ pending' = w.pending
            /\ link' = [link EXCEPT
                          ![n].pings = {q \in sent : ~Over(now - q.sent, PingTimeout)},
                          ![n].lastPing = IF send THEN now ELSE @,
                          ![n].checked = now]
    /\ UNCHANGED <<codec, lk, cfg, disk, xfer, registry, retx, rchan, reader, cmd,
                   loops, nextId, connOpen, budget, clock, lastOut>>

\* The read loop reads a line and stamps lastMessageReceived
\* (connection.go:119-138).
Received(l, n) == [l EXCEPT ![n].lastRecv = clock.now, ![n].readSince = clock.now]

\* The peer is prompt or it is not heard at all: a PING or PONG is read in
\* the instant it was written, or stays unread.
Prompt(m) == PingTime(m.id) = clock.now

\* handleMessage for a PING: the PONG with the id of the PING is sent and
\* handleMessage returns (connection.go:384-391).
HandlePing(n) ==
    /\ Ready(n)
    /\ LET m  == Head(net[n])
           w0 == [net |-> [net EXCEPT ![n] = Tail(@)], pending |-> pending]
           w  == SendMessage(w0, n, TextMsg(MsgTypePong, m.id, ""))
       IN /\ m.type = MsgTypePing
          /\ Prompt(m)
          /\ net' = w.net
          /\ pending' = w.pending
    /\ link' = Received(link, n)
    /\ UNCHANGED <<codec, lk, cfg, disk, xfer, registry, handlers, retx, rchan, reader,
                   cmd, loops, nextId, connOpen, budget, clock, lastOut>>

\* handleMessage for a PONG: the handler registered by sendPing deletes the
\* ping from activePings (connection.go:218-224) and stays registered; a
\* PONG without a handler is an unknown type (connection.go:423-425).
HandlePong(n) ==
    /\ Ready(n)
    /\ LET m == Head(net[n])
       IN /\ m.type = MsgTypePong
          /\ Prompt(m)
          /\ net' = [net EXCEPT ![n] = Tail(@)]
          /\ link' = [Received(link, n) EXCEPT ![n].pings =
                         IF HasHandler(n, m) THEN {q \in @ : q.id # m.id} ELSE @]
    /\ UNCHANGED <<codec, lk, cfg, disk, xfer, registry, handlers, pending, retx, rchan,
                   reader, cmd, loops, nextId, connOpen, budget, clock, lastOut>>

\* The 30 s read deadline passes (connection.go:119-131): the loop breaks and
\* the deferred Close runs when lastMessageReceived is more than 60 s old,
\* otherwise the deadline is set again.  lastMessageReceived was stamped
\* before the deadline it is compared under was set, so an age of 60 s on the
\* ticks is more than 60 s.
ReadTimeout(n) ==
    /\ clock.timed
    /\ link[n].phase = "open"
    /\ reader[n].pc = "idle"
    /\ clock.now - link[n].readSince = ReadDeadline
    /\ IF clock.now - link[n].lastRecv >= DeadLimit
       THEN /\ link' = Close(link, n)
            /\ connOpen' = [connOpen EXCEPT ![n] = FALSE]
       ELSE /\ link' = [link EXCEPT ![n].readSince = clock.now]
            /\ UNCHANGED connOpen
    /\ UNCHANGED <<codec, lk, cfg, disk, xfer, registry, handlers, pending, net, retx,
                   rchan, reader, cmd, loops, nextId, budget, clock, lastOut>>

\* 100 ms pass on a connection whose tickers, timers and deadlines are
\* punctual: the sweep and the health check due at this instant have run in
\* every process that is alive, the retransmitting goroutines have written,
\* and no wait or read deadline is past its limit.
TickAlive ==
    /\ clock.timed
    /\ clock.now < MaxAlive
    /\ clock.now % SweepPeriod = 0
          => \A n \in Nodes : link[n].exited \/ n \in clock.swept
    /\ (clock.now > 0 /\ clock.now % HealthPeriod = 0)
          => \A n \in Nodes : link[n].phase = "open" => link[n].checked = clock.now
    /\ \A n \in Nodes : retx[n] = {}
    /\ \A w \in RunningWaits : clock.now - w[1] < w[2]
    /\ \A n \in Nodes :
          link[n].phase = "open" => clock.now - link[n].readSince < ReadDeadline
    /\ clock' = [clock EXCEPT !.now = @ + 1, !.swept = {}]
    /\ UNCHANGED <<codec, link, lk, cfg, disk, xfer, registry, handlers, pending, net, retx, rchan,
                   reader, cmd, loops, nextId, connOpen, budget, lastOut>>

\* ---- Start, Handshake and Close (connection.go:101-194) -------------------
\* A line that json.Unmarshal rejects.
NotJSON == "not json"
RawLine == Msg(NotJSON, 0, "", 0, NoSum, <<>>, "", FALSE)

\* Handshake, first half: SendMessage(HANDSHAKE).
StartHandshake(n) ==
    /\ link[n].phase = "new"
    /\ LET w == SendMessage(Wire, n, TextMsg(MsgTypeHandshake, 0, n))
       IN /\ net' = w.net
          /\ pending' = w.pending
    /\ link' = [link EXCEPT ![n].phase = "hello", ![n].wrote = TRUE]
    /\ UNCHANGED <<codec, lk, cfg, disk, xfer, registry, handlers, retx, rchan,
                   reader, cmd, loops, nextId, connOpen, budget, clock, lastOut>>

\* Handshake, second half: the first line read must be a HANDSHAKE; anything
\* else makes Start return, and its deferred Close runs.
HandshakeRead(n) ==
    /\ link[n].phase = "hello"
    /\ net[n] # <<>>
    /\ LET m == Head(net[n])
       IN /\ net' = [net EXCEPT ![n] = Tail(@)]
          /\ IF m.type = MsgTypeHandshake
             THEN /\ link' = [link EXCEPT ![n].phase = "open", ![n].first = m.type]
                  /\ UNCHANGED connOpen
             ELSE /\ link' = Close([link EXCEPT ![n].first = m.type], n)
                  /\ connOpen' = [connOpen EXCEPT ![n] = FALSE]
    /\ UNCHANGED <<codec, lk, cfg, disk, xfer, registry, handlers, pending, retx,
                   rchan, reader, cmd, loops, nextId, budget, clock, lastOut>>

\* The 10 s read deadline of Handshake passes with nothing to read.
HandshakeTimeout(n) ==
    /\ link[n].phase = "hello"
    /\ net[n] = <<>>
    /\ link' = Close([link EXCEPT ![n].first = "timeout"], n)
    /\ connOpen' = [connOpen EXCEPT ![n] = FALSE]
    /\ UNCHANGED <<codec, lk, cfg, disk, xfer, registry, handlers, pending, net,
                   retx, rchan, reader, cmd, loops, nextId, budget, clock,
                   lastOut>>

\* The other end is not this program: the first line it writes is a MESSAGE
\* or is not JSON at all.
ForeignPeer(p, t) ==
    /\ link[p].phase = "new"
    /\ link' = [link EXCEPT ![p].phase = "foreign"]
    /\ net' = [net EXCEPT ![Peer(p)] =
                  Append(@, IF t = NotJSON THEN RawLine
                            ELSE TextMsg(t, 0, "hello"))]
    /\ UNCHANGED <<codec, lk, cfg, disk, xfer, registry, handlers, pending, retx,
                   rchan, reader, cmd, loops, nextId, connOpen, budget, clock,
                   lastOut>>

\* handleMessage for a line that is not JSON (logged, connection.go:370-373),
\* a MESSAGE (printed) or a type without a case (warned about).
HandleIgnored(n) ==
    /\ Ready(n)
    /\ LET m == Head(net[n])
       IN /\ m.type \in {NotJSON, MsgTypeMessage, MsgTypeHandshake}
          /\ m.type # NotJSON => ~HasHandler(n, m)
          /\ net' = [net EXCEPT ![n] = Tail(@)]
    /\ UNCHANGED <<codec, link, lk, cfg, disk, xfer, registry, handlers, pending,
                   retx, rchan, reader, cmd, loops, nextId, connOpen, budget,
                   clock, lastOut>>


\* ---- protocol violations (connection.go:368-373, 428-474) ------------------
\* The command names handleCommand has a case for.
KnownCommands ==
    {"LS", "LIST", "CDR", "GET", "PUT", "INFO", "GETDIR", "PUTDIR", "GETM",
     "PUTM", "STATUS"}

\* Lines only a faulty peer writes: one that is not JSON, and a COMMAND
\* whose name is empty or unknown, without or with an id.
BadLines ==
    {RawLine} \cup {CmdMsg(id, name, "") : id \in {0, 9}, name \in {"", "FROB"}}

Offending(m) ==
    \/ m.type = NotJSON
    \/ m.type = MsgTypeCommand /\ m.text \notin KnownCommands

PeerWritesBad(n, m) ==
    /\ connOpen[n]
    /\ budget.ioerr < MaxIoErr
    /\ net' = [net EXCEPT ![n] = Append(@, m)]
    /\ budget' = [budget EXCEPT !.ioerr = @ + 1]
    /\ UNCHANGED <<codec, link, lk, cfg, disk, xfer, registry, handlers, pending,
                   retx, rchan, reader, cmd, loops, nextId, connOpen, clock,
                   lastOut>>

\* handleCommand when ParseCommand returns nil (empty Data) or the name has
\* no case: an ERROR under the id of the command, after handleMessage's ACK.
HandleBadCommand(n) ==
    /\ Ready(n)
    /\ LET m == Head(net[n])
           text == IF m.text = "" THEN "Invalid command format"
                   ELSE "Unknown command"
           w == SendMessage(PreWire(n, m), n, TextMsg(MsgTypeError, m.id, text))
       IN /\ ~HasHandler(n, m)
          /\ m.type = MsgTypeCommand /\ m.text \notin KnownCommands
          /\ net' = w.net
          /\ pending' = w.pending
    /\ UNCHANGED <<codec, link, lk, cfg, disk, xfer, registry, handlers, retx, rchan,
                   reader, cmd, loops, nextId, connOpen, budget, clock, lastOut>>


\* ---- the goroutines of one node, lock by lock ------------------------------
Next1(t) == Head(lk.run[t])
Running(t) == ~lk.exited /\ lk.run[t] # <<>>
Advance(t) == [lk EXCEPT !.run[t] = Tail(@)]

Call(t, prog) ==
    /\ ~lk.exited
    /\ lk.fn[t] = <<>>
    /\ prog \in Programs(t, lk.client)
    /\ lk' = [lk EXCEPT !.run[t] = prog, !.fn[t] = prog]
    /\ UNCHANGED <<program, codec, link>>

Acquire(t) ==
    /\ Running(t)
    /\ Next1(t).op = "lock"
    /\ lk.held[Next1(t).arg] = "none"
    /\ lk' = [Advance(t) EXCEPT !.held[Next1(t).arg] = t]
    /\ UNCHANGED <<program, codec, link>>

Release(t) ==
    /\ Running(t)
    /\ Next1(t).op = "unlock"
    /\ lk' = [Advance(t) EXCEPT !.held[Next1(t).arg] = "none"]
    /\ UNCHANGED <<program, codec, link>>

Work(t) ==
    /\ Running(t)
    /\ Next1(t).op \in {"work", "access"}
    /\ lk' = Advance(t)
    /\ UNCHANGED <<program, codec, link>>

\* go func(m Message) {...}(msg): the goroutine runs after those started
\* before it.
Spawn(t) ==
    /\ Running(t)
    /\ Next1(t).op = "go"
    /\ lk' = [Advance(t) EXCEPT !.run["retx"] = @ \o RetransmitProgram]
    /\ UNCHANGED <<program, codec, link>>

\* os.Exit ends every goroutine of the process.
ExitProcess(t) ==
    /\ Running(t)
    /\ Next1(t).op = "exit"
    /\ lk' = [lk EXCEPT !.exited = TRUE]
    /\ UNCHANGED <<program, codec, link>>


\* ---- specifications -------------------------------------------------------
\* The user of A types PUT f; every line is delivered and handled; no pause,
\* no cancel, no disk error, no wait runs out.
PutOnly == [A |-> <<Command("PUT", "f", 0)>>, B |-> <<>>]

TransferInit == InitWith(Unlimited, FALSE, {PutOnly})

Transfer ==
    \/ UserPut("A", "f")
    \/ \E n \in Nodes : CmdPutReady(n)
    \/ \E n \in Nodes : CmdStartOk(n)
    \/ \E n \in Nodes : HandleResponse(n)
    \/ \E n \in Nodes : HandlePutCmd(n)
    \/ \E n \in Nodes : HandleFileStart(n)
    \/ \E n \in Nodes : HandleFileData(n, FALSE)
    \/ \E n \in Nodes : HandleFileEnd(n)
    \/ \E n \in Nodes : HandleProgress(n)
    \/ \E n \in Nodes : HandleAck(n)
    \/ \E n \in Nodes : \E tid \in DOMAIN loops[n] : LoopRead(n, tid)
    \/ \E n \in Nodes : \E tid \in DOMAIN loops[n] : LoopSend(n, tid)
    \/ \E n \in Nodes : \E tid \in DOMAIN loops[n] : LoopEof(n, tid)
    \/ \E n \in Nodes : \E tid \in DOMAIN loops[n] : LoopEndOk(n, tid)

\* The goroutines of both nodes keep being scheduled.
TransferSpec == TransferInit /\ [][Transfer]_vars /\ WF_vars(Transfer)

\* The same PUT between two nodes that verify checksums, with the faults of
\* the environment: a write on the receiver's disk or a read on the sender's
\* disk fails, the retry sweep retransmits a pending message before its ACK
\* is read.
FaultyInit == InitWith(Verifying, FALSE, {PutOnly})

Faulty ==
    \/ Transfer
    \/ \E n \in Nodes : HandleFileData(n, TRUE)
    \/ \E n \in Nodes : HandlePrinted(n)
    \/ \E n \in Nodes : \E tid \in DOMAIN loops[n] : LoopReadError(n, tid, FALSE)
    \/ \E n \in Nodes : Sweep(n)
    \/ \E n \in Nodes : RetxWrite(n)

FaultySpec == FaultyInit /\ [][Faulty]_vars

\* PUT f on A, then CANCEL typed twice on the sender, and CANCEL typed on the
\* receiver, at any moment of the transfer.
CancelTwice ==
    [A |-> <<Command("PUT", "f", 0), Command("CANCEL", "", 1), Command("CANCEL", "", 1)>>,
     B |-> <<Command("CANCEL", "", 1), Command("CANCEL", "", 1)>>]

CancelInit == InitWith(Verifying, FALSE, {CancelTwice})

Cancelling ==
    \/ Transfer
    \/ \E n \in Nodes : UserCancel(n, 1)
    \/ \E n \in Nodes : HandlePrinted(n)
    \/ \E n \in Nodes : \E tid \in DOMAIN loops[n] : LoopReadError(n, tid, TRUE)
    \/ \E n \in Nodes : \E tid \in DOMAIN loops[n] : LoopAbort(n, tid)

CancelSpec == CancelInit /\ [][Cancelling]_vars

\* PUT f on A, paused and resumed on the sender and on the receiver at any
\* moment of the transfer; or PUT f on both nodes at once, the second
\* transfer of B paused and resumed.
PauseResume ==
    [A |-> <<Command("PUT", "f", 0), Command("PAUSE", "", 1), Command("RESUME", "", 1)>>,
     B |-> <<Command("PAUSE", "", 1), Command("RESUME", "", 1)>>]

Crossing ==
    [A |-> <<Command("PUT", "f", 0)>>,
     B |-> <<Command("PUT", "f", 0), Command("PAUSE", "", 2), Command("RESUME", "", 2)>>]

PauseInit == InitWith(Verifying, FALSE, {PauseResume, Crossing})

Pausing ==
    \/ Transfer
    \/ UserPut("B", "f")
    \/ \E n \in Nodes : \E id \in 1..2 : UserPause(n, id)
    \/ \E n \in Nodes : \E id \in 1..2 : UserResume(n, id)
    \/ \E n \in Nodes : HandlePrinted(n)

PauseSpec == PauseInit /\ [][Pausing]_vars

\* The user of B: three PUTs, each cancelled on B before its send goroutine
\* has read a chunk, which leaves the receive-transfers of A in progress,
\* then a GET or a PUT; or a lone GET of the large file.  A runs without a
\* size limit or with the 1 MB limit.
Abandon(last) ==
    [A |-> <<>>,
     B |-> <<Command("PUT", "f", 0), Command("CANCEL", "", 1),
             Command("PUT", "g", 0), Command("CANCEL", "", 2),
             Command("PUT", "h", 0), Command("CANCEL", "", 3), last>>]

CommandScripts ==
    {Abandon(Command("GET", "big", 0)), Abandon(Command("PUT", "big", 0)),
     [A |-> <<>>, B |-> <<Command("GET", "big", 0)>>]}

Limited == {c \in [Nodes -> ConfigSet] : c["B"].maxSize = 0 /\ \A n \in Nodes : c[n].verify}

CommandInit == InitWith(Limited, FALSE, CommandScripts)

Commands ==
    \/ \E name \in Names : UserPut("B", name)
    \/ \E name \in Names : UserGet("B", name)
    \/ \E id \in 1..3 : UserCancel("B", id)
    \/ \E n \in Nodes : CmdPutReady(n)
    \/ \E n \in Nodes : CmdPutRefused(n)
    \/ \E n \in Nodes : CmdStartOk(n)
    \/ \E n \in Nodes : CmdGetRelOk(n)
    \/ \E n \in Nodes : CmdGetRelTimeout(n)
    \/ \E n \in Nodes : CmdGetResultTimeout(n)
    \/ \E n \in Nodes : HandleResponse(n)
    \/ \E n \in Nodes : PushDone(n)
    \/ \E n \in Nodes : HandlePutCmd(n)
    \/ \E n \in Nodes : HandleGetCmd(n)
    \/ \E n \in Nodes : ReaderGetTimeout(n)
    \/ \E n \in Nodes : HandleFileStart(n)
    \/ \E n \in Nodes : HandleAck(n)
    \/ \E n \in Nodes : HandlePrinted(n)
    \/ \E n \in Nodes : \E tid \in DOMAIN loops[n] : LoopReadError(n, tid, TRUE)

CommandSpec == CommandInit /\ [][Commands]_vars

\* The user of B types GET f while the read loop of A handles nothing (it is
\* held in a wait of its own): the COMMAND of B gets no ACK and no result.
\* Time is on the clock: the sweep runs every 500 ms, the waits run out on
\* their timers.
GetOnly == [A |-> <<>>, B |-> <<Command("GET", "f", 0)>>]

SilentInit == InitWith(Verifying, TRUE, {GetOnly})

Silent ==
    \/ UserGet("B", "f")
    \/ \E n \in Nodes : Sweep(n)
    \/ RetxWrite("B")
    \/ CmdGetRelTimeout("B")
    \/ Tick

SilentSpec == SilentInit /\ [][Silent]_vars /\ WF_vars(Silent)


\* Two connected nodes with nothing to transfer, on the clock: each side's
\* keep-alive prober, read deadline and retry sweep run; the other side is
\* prompt or is not heard.  The user of B may type GET f at any moment from
\* TypeFrom on; its COMMAND is not read by A.
KeepAliveInit == InitWith(Verifying, TRUE, {GetOnly})

KeepAlive ==
    \/ \E n \in Nodes : HealthCheck(n)
    \/ \E n \in Nodes : HandlePing(n)
    \/ \E n \in Nodes : HandlePong(n)
    \/ \E n \in Nodes : ReadTimeout(n)
    \/ clock.now >= TypeFrom /\ UserGet("B", "f")
    \/ \E n \in Nodes : Sweep(n)
    \/ RetxWrite("B")
    \/ TickAlive

KeepAliveSpec == KeepAliveInit /\ [][KeepAlive]_vars

\* The receiver B runs with or without a size limit of 1 MB and with or
\* without -writeonly; A sends it f, the 5-chunk file big, or a file named by
\* a path that leads out of the folder, or B asks A for f.
Refusing ==
    {c \in [Nodes -> [verify : {TRUE}, maxSize : {0, 1}, readOnly : {FALSE},
                      writeOnly : BOOLEAN]] :
        c["A"].maxSize = 0 /\ ~c["A"].writeOnly}

PutPaths == {"f", "big"} \cup EscapingPaths
PutOne == {[A |-> <<Command("PUT", p, 0)>>, B |-> <<>>] : p \in PutPaths}

EscapeInit == InitWith(Refusing, FALSE, PutOne \cup {GetOnly})

Escaping ==
    \/ Transfer
    \/ \E p \in PutPaths \ {"f"} : UserPut("A", p)
    \/ UserGet("B", "f")
    \/ \E n \in Nodes : CmdGetRelOk(n)
    \/ \E n \in Nodes : CmdGetRelTimeout(n)
    \/ \E n \in Nodes : CmdGetResultTimeout(n)
    \/ \E n \in Nodes : CmdPutRefused(n)
    \/ \E n \in Nodes : HandleGetCmd(n)
    \/ \E n \in Nodes : ReaderGetTimeout(n)
    \/ \E n \in Nodes : PushDone(n)
    \/ \E n \in Nodes : HandlePrinted(n)

EscapeSpec == EscapeInit /\ [][Escaping]_vars

\* ---- the wire format on its own -------------------------------------------
\* One message of every kind is marshalled by the sender (SendMessage,
\* connection.go:256-262), read and unmarshalled by the receiver
\* (connection.go:120, 369) and its payload recovered by the handler.
\* Text holds the characters the JSON encoder escapes; a chunk of a file
\* holds any byte, 255 being one that is not valid UTF-8.
TextBytes == {10, 34, 60, 65, 92}
FileBytes == {0, 10, 65, 255}
BytesUpTo(alphabet, k) == UNION {[1..len -> alphabet] : len \in 0..k}
MessageIds == {<<>>, <<109, 45, 49>>}

Messages ==
    {WireMessage(MsgTypeFileData, id, d, TRUE) :
        id \in MessageIds, d \in BytesUpTo(FileBytes, MaxLen)}
    \cup {WireMessage(t, id, d, FALSE) :
            t \in {MsgTypeMessage, MsgTypeCommand}, id \in MessageIds,
            d \in BytesUpTo(TextBytes, MaxLen)}

CodecInit ==
    /\ InitProgram(Verifying, FALSE, {PutOnly})
    /\ codec \in {[NoCodec EXCEPT !.pc = "new", !.m = m] : m \in Messages}
    /\ link = Established
    /\ lk = NoLocks

CodecMarshal ==
    /\ codec.pc = "new"
    /\ codec' = [codec EXCEPT !.pc = "sent", !.line = MarshalLine(codec.m)]
    /\ UNCHANGED <<program, link, lk>>

CodecUnmarshal ==
    /\ codec.pc = "sent"
    /\ codec' = [codec EXCEPT !.pc = "read", !.got = Unmarshal(codec.line)]
    /\ UNCHANGED <<program, link, lk>>

\* handleMessage (connection.go:368-373) returns after logging when the line
\* is not valid JSON; otherwise the handler of the type uses the payload.
CodecHandle ==
    /\ codec.pc = "read"
    /\ codec' = IF codec.got.ok
                THEN [codec EXCEPT !.pc = "done",
                                   !.data = ReceivedData(codec.got.val)]
                ELSE [codec EXCEPT !.pc = "dropped"]
    /\ UNCHANGED <<program, link, lk>>

CodecNext == CodecMarshal \/ CodecUnmarshal \/ CodecHandle

CodecSpec == CodecInit /\ [][CodecNext]_vars


\* ---- the handshake ----------------------------------------------------------
\* Both connections start at Start.  The peer of B is this program (A) or a
\* foreign one; A's user types MSG and PUT f once A's connection is
\* established.
MsgThenPut == [A |-> <<Command("MSG", "", 0), Command("PUT", "f", 0)>>, B |-> <<>>]

HandshakeInit ==
    /\ InitProgram(Unlimited, FALSE, {MsgThenPut})
    /\ codec = NoCodec
    /\ link = Dialled
    /\ lk = NoLocks

Handshaking ==
    \/ \E n \in Nodes : StartHandshake(n)
    \/ \E n \in Nodes : HandshakeRead(n)
    \/ \E n \in Nodes : HandshakeTimeout(n)
    \/ \E t \in {MsgTypeMessage, NotJSON} : ForeignPeer("A", t)
    \/ \E n \in Nodes : HandleIgnored(n)
    \/ link["A"].phase = "open" /\ UserMsg("A")
    \/ link["A"].phase = "open" /\ Transfer

HandshakeSpec == HandshakeInit /\ [][Handshaking]_vars


\* ---- write errors ----------------------------------------------------------
\* A's user types PUT f and then MSG, B's user types MSG twice; one of the
\* MSG commands meets an I/O error in SendMessage.
Chatting ==
    [A |-> <<Command("PUT", "f", 0), Command("MSG", "", 0)>>,
     B |-> <<Command("MSG", "", 0), Command("MSG", "", 0)>>]

WriteErrorInit == InitWith(Verifying, FALSE, {Chatting})

WriteErrors ==
    \/ Transfer
    \/ \E n \in Nodes : UserMsg(n)
    \/ \E n \in Nodes : \E stage \in {"write", "flush"} : UserMsgFails(n, stage)
    \/ \E n \in Nodes : HandleIgnored(n)

WriteErrorSpec == WriteErrorInit /\ [][WriteErrors]_vars


\* ---- a peer that violates the protocol ---------------------------------------
\* A PUT of f from A to B runs while one faulty line arrives at either node.
ViolationInit == InitWith(Verifying, FALSE, {PutOnly})

Violations ==
    \/ Transfer
    \/ \E n \in Nodes : \E m \in BadLines : PeerWritesBad(n, m)
    \/ \E n \in Nodes : HandleBadCommand(n)
    \/ \E n \in Nodes : HandleIgnored(n)
    \/ \E n \in Nodes : HandlePrinted(n)

ViolationSpec == ViolationInit /\ [][Violations]_vars


\* ---- the mutexes -------------------------------------------------------------
\* Every task of a client or of a server runs one of its functions, in every
\* interleaving of their steps.
LockInit ==
    /\ InitProgram(Verifying, FALSE, {PutOnly})
    /\ codec = NoCodec
    /\ link = Established
    /\ lk \in {[NoLocks EXCEPT !.client = c] : c \in BOOLEAN}

Locking ==
    \/ \E t \in Tasks : \E prog \in Programs(t, lk.client) : Call(t, prog)
    \/ \E t \in Tasks : Acquire(t)
    \/ \E t \in Tasks : Release(t)
    \/ \E t \in Tasks : Work(t)
    \/ \E t \in Tasks : Spawn(t)
    \/ \E t \in Tasks : ExitProcess(t)

LockSpec == LockInit /\ [][Locking]_vars


\* ---- commands typed during a transfer ---------------------------------------
\* A's user types PUT f and then, at any moment, PAUSE 1 and MSG.
PutPauseMsg ==
    [A |-> <<Command("PUT", "f", 0), Command("PAUSE", "", 1), Command("MSG", "", 0)>>,
     B |-> <<>>]

TypingInit == InitWith(Unlimited, FALSE, {PutPauseMsg})

Typing ==
    \/ Transfer
    \/ \E n \in Nodes : LoopRefuses(n)
    \/ \E n \in Nodes : LoopPause(n, 1)
    \/ \E n \in Nodes : LoopMsg(n)
    \/ \E n \in Nodes : HandleIgnored(n)

TypingSpec == TypingInit /\ [][Typing]_vars


\* The user of A types PUT f, or PUTM with a pattern that matches f and g:
\* the second file is started while the first is still being sent.
PutMany == [A |-> <<Command("PUTM", Pattern, 0)>>, B |-> <<>>]

MultiInit == InitWith(Verifying, FALSE, {PutOnly, PutMany})

Multi ==
    \/ Transfer
    \/ UserPutM("A")
    \/ \E n \in Nodes : HandlePutMCmd(n)
    \/ \E n \in Nodes : CmdPutMResult(n)
    \/ \E n \in Nodes : CmdPutMNext(n)
    \/ \E n \in Nodes : CmdPutMStarted(n)
    \/ \E n \in Nodes : HandlePrinted(n)

MultiSpec == MultiInit /\ [][Multi]_vars


\* The scripts of CommandSpec, and one more: B abandons three PUTs and then
\* types PUT big, while the user of A pauses and resumes the first of the
\* receive-transfers left on A.
PauseOnReceiver ==
    [A |-> <<Command("PAUSE", "", 1), Command("RESUME", "", 1)>>,
     B |-> Abandon(Command("PUT", "big", 0)).B]

AdmissionInit == InitWith(Limited, FALSE, CommandScripts \cup {PauseOnReceiver})

Admission ==
    \/ Commands
    \/ UserPause("A", 1)
    \/ UserResume("A", 1)

AdmissionSpec == AdmissionInit /\ [][Admission]_vars


\* PUT f on A, cancelled on A at any moment of the transfer; the user of B
\* types nothing.  The goroutines of both nodes keep being scheduled and the
\* user of A does type both commands.
CancelOnSender ==
    [A |-> <<Command("PUT", "f", 0), Command("CANCEL", "", 1)>>, B |-> <<>>]

PeerCancelInit == InitWith(Unlimited, FALSE, {CancelOnSender})

PeerCancelSpec == PeerCancelInit /\ [][Cancelling]_vars /\ WF_vars(Cancelling)


\* PUT f on A; the user of B pauses and resumes the receive-transfer at any
\* moment.  No fault, no cancel, nothing typed on A but the PUT.
PauseOnB ==
    [A |-> <<Command("PUT", "f", 0)>>,
     B |-> <<Command("PAUSE", "", 1), Command("RESUME", "", 1)>>]

ReceiverPauseInit == InitWith(Unlimited, FALSE, {PauseOnB})

ReceiverPause ==
    \/ Transfer
    \/ UserPause("B", 1)
    \/ UserResume("B", 1)
    \/ \E n \in Nodes : HandlePrinted(n)

ReceiverPauseSpec == ReceiverPauseInit /\ [][ReceiverPause]_vars


\* PUT f typed on A and GET f typed on B, at any moment: the reliable sends
\* of FILESTART (command task, read loop), FILEEND (send goroutine) and
\* COMMAND (command task) return with a response; those of FILESTART and
\* COMMAND also with their timer, that of COMMAND with the error of a failed
\* write.
PutAndGet ==
    [A |-> <<Command("PUT", "f", 0)>>, B |-> <<Command("GET", "f", 0)>>]

ReliableInit == InitWith(Verifying, FALSE, {PutAndGet})

Reliable ==
    \/ Transfer
    \/ UserGet("B", "f")
    \/ \E stage \in {"write", "flush"} : UserGetFails("B", "f", stage)
    \/ \E n \in Nodes : CmdGetRelOk(n)
    \/ \E n \in Nodes : CmdGetRelTimeout(n)
    \/ \E n \in Nodes : CmdGetResultTimeout(n)
    \/ \E n \in Nodes : CmdStartTimeout(n)
    \/ \E n \in Nodes : CmdPutTimeout(n)
    \/ \E n \in Nodes : HandleGetCmd(n)
    \/ \E n \in Nodes : ReaderGetTimeout(n)
    \/ \E n \in Nodes : PushDone(n)
    \/ \E n \in Nodes : HandlePrinted(n)

ReliableSpec == ReliableInit /\ [][Reliable]_vars


\* ---- properties -----------------------------------------------------------
SendStarted == xfer["A"] # <<>>
BothComplete ==
    /\ xfer["A"] # <<>> /\ xfer["A"][1].status = TransferStatusComplete
    /\ xfer["B"] # <<>> /\ xfer["B"][1].status = TransferStatusComplete

Receives(n, tid) == xfer[n][tid].type = TransferTypeReceive
Registered(n, tid) == tid \in Range(registry[n])

\* C2: a receive-transfer on a node with verification enabled is Complete
\* only if the file on its disk has the SHA-256 of the sender's source file.
C2_CompleteIsVerified ==
    \A n \in Nodes : \A tid \in DOMAIN xfer[n] :
        LET x == xfer[n][tid]
        IN (Receives(n, tid) /\ cfg[n].verify /\ x.status = TransferStatusComplete)
           => /\ disk[n][x.name].exists
              /\ Sha(disk[n][x.name].data) = Sha(disk[Peer(n)][x.name].data)

\* The step in which the read loop of n handles the FILEEND of the
\* receive-transfer tid whose checksum differs from the SHA-256 of the bytes
\* on disk.
EndWithMismatch(n, tid) ==
    /\ Ready(n)
    /\ ~HasHandler(n, Head(net[n]))
    /\ Head(net[n]).type = MsgTypeFileEnd
    /\ tid \in EndTargets(n, Head(net[n]).path)
    /\ Head(net[n]).sum # NoSum
    /\ Head(net[n]).sum # Sha(disk[n][Head(net[n]).path].data)
    /\ net'[n] = Tail(net[n])

\* The receive-transfer tid of n was failed by handleFileEnd: Failed, file
\* closed, still registered.
FailedByEnd(n, tid) ==
    /\ Receives(n, tid)
    /\ xfer[n][tid].status = TransferStatusFailed
    /\ ~xfer[n][tid].file
    /\ Registered(n, tid)

ErrorSent(n) ==
    \E i \in (Len(net[Peer(n)]) + 1)..Len(net'[Peer(n)]) :
        net'[Peer(n)][i].type = MsgTypeError

\* C3: handling a FILEEND whose checksum differs from the bytes written
\* deletes the partial file, sends ERROR and sets the transfer Failed, and a
\* transfer failed that way is never Complete afterwards.
C3_MismatchFailsForGood ==
    [][\A n \in Nodes : \A tid \in DOMAIN xfer[n] :
          /\ EndWithMismatch(n, tid)
                => /\ xfer'[n][tid].status = TransferStatusFailed
                   /\ ~disk'[n][xfer[n][tid].name].exists
                   /\ ErrorSent(n)
          /\ FailedByEnd(n, tid) => xfer'[n][tid].status # TransferStatusComplete]_vars

InProgressCount(n) ==
    Cardinality({tid \in GetTransfers(n) :
                    xfer[n][tid].status = TransferStatusInProgress})

\* The step in which the read loop of n handles a GET or PUT command.
CommandHandled(n) ==
    /\ Ready(n)
    /\ ~HasHandler(n, Head(net[n]))
    /\ Head(net[n]).type = MsgTypeCommand
    /\ Head(net[n]).text \in {"GET", "PUT"}
    /\ net'[n] = Tail(net[n])

\* The lines n writes in the step.
Written(n) ==
    {net'[Peer(n)][i] : i \in (Len(net[Peer(n)]) + 1)..Len(net'[Peer(n)])}

AnsweredWithError(n) ==
    \E r \in Written(n) : r.type = MsgTypeError /\ r.id = Head(net[n]).id

\* C4: while three registered transfers are InProgress, a GET or PUT command
\* is answered with an ERROR under the id of the command and leaves the
\* registry as it was.
C4_AdmissionRefused ==
    [][\A n \in Nodes :
          (CommandHandled(n) /\ InProgressCount(n) = MaxActive)
             => /\ AnsweredWithError(n)
                /\ registry'[n] = registry[n]
                /\ xfer'[n] = xfer[n]]_vars

Refusal == "Too many active transfers"

C4_Witness ==
    /\ InProgressCount("A") = MaxActive
    /\ \E i \in DOMAIN net["B"] :
          net["B"][i].type = MsgTypeError /\ net["B"][i].text = Refusal
                                          /\ net["B"][i].id # 0

\* The file asked for exists on n and is larger than the limit of n.
TooLarge(n, path) ==
    /\ path \in Names
    /\ disk[n][path].exists
    /\ cfg[n].maxSize > 0
    /\ FileSize(disk[n][path]) > cfg[n].maxSize * MiB

\* C5: a GET for a file larger than the configured limit is answered with an
\* ERROR; no FILESTART is written and no transfer is registered.
C5_OversizeRefused ==
    [][\A n \in Nodes :
          (CommandHandled(n) /\ Head(net[n]).text = "GET"
                             /\ TooLarge(n, Head(net[n]).path))
             => /\ AnsweredWithError(n)
                /\ \A r \in Written(n) : r.type # MsgTypeFileStart
                /\ registry'[n] = registry[n]
                /\ xfer'[n] = xfer[n]]_vars

C5_Witness ==
    /\ cfg["A"].maxSize = 1
    /\ xfer["A"] = <<>>
    /\ \E i \in DOMAIN net["B"] :
          net["B"][i].type = MsgTypeError /\ net["B"][i].text = "File size exceeds maximum"

TimedOutAt(n) == cmd[n].pc = "idle" /\ lastOut[n] = "reliable message timed out"

\* C6: the reliable send of a COMMAND that gets no reply returns the timeout
\* error, and when it returns the pending map has no entry under the id of
\* the message.
C6_TimeoutLeavesNoPending ==
    /\ (cmd["B"].pc = "getRel") ~> TimedOutAt("B")
    /\ [][(cmd["B"].pc = "getRel" /\ cmd'["B"].pc # "getRel")
             => /\ lastOut'["B"] = "reliable message timed out"
                /\ cmd["B"].id \notin DOMAIN pending'["B"]]_vars

C6_Witness ==
    /\ TimedOutAt("B")
    /\ clock.now >= ReliableTimeout
    /\ cmd["B"].id \notin DOMAIN pending["B"]
    /\ Len(net["A"]) > 1

\* Cancelling id on n once, and once more.
Once(n, id) == CancelTransfer(xfer[n], registry[n], id)
Again(n, id) == CancelTransfer(Once(n, id).xfer, Once(n, id).registry, id)

\* C7 as stated: the second cancel of an id leaves the registry, the status
\* and the file handle as the first left them and reports what the first
\* reported.
C7_SameOutcome ==
    \A n \in Nodes : \A id \in DOMAIN xfer[n] :
        /\ Again(n, id).xfer = Once(n, id).xfer
        /\ Again(n, id).registry = Once(n, id).registry
        /\ Again(n, id).out = Once(n, id).out

\* C7: the second cancel of an id leaves the registry, the status and the
\* file handle as the first left them, and reports that no active transfer
\* has the id.
C7_SameStateNotFound ==
    \A n \in Nodes : \A id \in DOMAIN xfer[n] :
        /\ Again(n, id).xfer = Once(n, id).xfer
        /\ Again(n, id).registry = Once(n, id).registry
        /\ Again(n, id).out = "no active transfer"

C7_Witness ==
    /\ budget.script["A"] = <<>>
    /\ lastOut["A"] = "no active transfer"
    /\ xfer["A"] # <<>>
    /\ xfer["A"][1].status = TransferStatusFailed
    /\ xfer["A"][1].closes >= 1

\* C8: the file handle of a transfer is never closed twice, and is closed
\* once when the transfer has ended and its goroutine has returned.
C8_ClosedOnce ==
    \A n \in Nodes : \A tid \in DOMAIN xfer[n] :
        /\ xfer[n][tid].closes <= 1
        /\ ( /\ xfer[n][tid].status \in {TransferStatusComplete, TransferStatusFailed}
             /\ ~Registered(n, tid)
             /\ tid \notin DOMAIN loops[n] )
           => xfer[n][tid].closes = 1

Sends(n, tid) == xfer[n][tid].type = TransferTypeSend

\* The send goroutine of tid writes a FILEDATA in the step.
ChunkSent(n, tid) ==
    /\ tid \in DOMAIN loops[n] /\ loops[n][tid].pc = "chunk"
    /\ tid \in DOMAIN loops'[n] /\ loops'[n][tid].pc = "loop"

\* The send goroutine of tid reads a chunk in the step.
ChunkRead(n, tid) ==
    /\ tid \in DOMAIN loops[n] /\ loops[n][tid].pc = "loop"
    /\ tid \in DOMAIN loops'[n] /\ loops'[n][tid].pc = "chunk"

\* The transfer is paused, or was resumed and has had no progress update
\* since.
AcrossPause(n, tid) ==
    xfer[n][tid].paused \/ xfer[n][tid].lastProgressTime = "resume"

\* C9: across Pause and Resume of a send-transfer BytesTransferred never
\* decreases; the chunk read is the one at the offset of the bytes already
\* sent, and it is sent in one FILEDATA that advances that offset, so no byte
\* is sent twice.
C9_MonotoneNoResend ==
    [][\A n \in Nodes : \A tid \in DOMAIN xfer[n] :
          (Sends(n, tid) /\ AcrossPause(n, tid))
             => /\ xfer'[n][tid].bytes >= xfer[n][tid].bytes
                /\ (tid \in DOMAIN loops[n] /\ tid \in DOMAIN loops'[n])
                      => loops'[n][tid].sent >= loops[n][tid].sent
                /\ ChunkRead(n, tid)
                      => loops'[n][tid].chunk =
                            disk[n][xfer[n][tid].name].data
                                [(loops[n][tid].sent \div ChunkSize) + 1]
                /\ ChunkSent(n, tid)
                      => /\ loops'[n][tid].sent = loops[n][tid].sent + ChunkSize
                         /\ \E r \in Written(n) :
                               /\ r.type = MsgTypeFileData
                               /\ DecodePayload(r)[1] = loops[n][tid].chunk]_vars

\* C10: a Failed transfer has its file handle closed, is out of the registry,
\* and the connection is open.
C10_FailedIsReleased ==
    \A n \in Nodes : \A tid \in DOMAIN xfer[n] :
        xfer[n][tid].status = TransferStatusFailed
            => /\ xfer[n][tid].closes >= 1
               /\ ~Registered(n, tid)
               /\ connOpen[n]

\* C11: a message with a text or a binary payload that is marshalled, read
\* back and handled is never dropped, has the type and the id it was sent
\* with, and the handler's bytes (base64-decoded for a file chunk) equal the
\* original payload byte for byte.
C11_RoundTrip ==
    /\ codec.pc # "dropped"
    /\ codec.pc = "done"
            => /\ codec.got.val.type = codec.m.type
               /\ codec.got.val.id = codec.m.id
               /\ codec.data = codec.m.data

C11_Witness ==
    /\ codec.pc = "done"
    /\ codec.m.binary
    /\ Len(codec.m.data) = 2
    /\ 255 \in Range(codec.m.data)
    /\ codec.m.id # <<>>
    /\ codec.data = codec.m.data

\* C12: a connection hands a line to handleMessage only after it has written
\* its own HANDSHAKE and the first line it read was a HANDSHAKE; when the
\* first line has another type or is not JSON, or the read times out, the
\* connection is closed, and nothing is dispatched on it.
Dispatch(n) ==
    /\ net[n] # <<>>
    /\ net'[n] = Tail(net[n])
    /\ link'[n] = link[n]

C12_HandshakeFirst ==
    /\ [][\A n \in Nodes :
            Dispatch(n) => /\ link[n].wrote
                           /\ link[n].first = MsgTypeHandshake
                           /\ link[n].phase = "open"]_vars
    /\ [](\A n \in Nodes :
            link[n].first \notin {"", MsgTypeHandshake}
                => link[n].phase = "closed" /\ ~connOpen[n])

C12_Witness ==
    /\ link["B"].first = MsgTypeHandshake
    /\ link["B"].wrote
    /\ xfer["B"] # <<>>
    /\ link["A"].phase = "open"

\* C13: the lines of one connection are handled in the order in which they
\* were written, retransmissions included: a step either appends lines
\* behind everything written to the peer before, or hands the oldest
\* unhandled line to the receiver.
Appended(old, new) == Len(new) >= Len(old) /\ SubSeq(new, 1, Len(old)) = old

C14_WriteErrorTearsDown ==
    \A n \in Nodes :
        link[n].werr # ""
            => /\ ~connOpen[n]
               /\ ~link[n].listed
               /\ link[n].isClient => link[n].exited

\* C15: the step that handles a line that is not JSON, or a COMMAND with an
\* empty or unknown name, leaves the connection open and writes an ERROR to
\* the peer that carries the id of the offending message.
C15_ViolationReported ==
    [][\A n \in Nodes :
          Dispatch(n) /\ Offending(Head(net[n]))
              => /\ connOpen'[n]
                 /\ link'[n].phase = "open"
                 /\ \E i \in (Len(net[Peer(n)]) + 1)..Len(net'[Peer(n)]) :
                       /\ net'[Peer(n)][i].type = MsgTypeError
                       /\ net'[Peer(n)][i].id = Head(net[n]).id]_vars

\* C16: no interleaving of senders, the retry sweep, Cancel and Close leaves
\* a task waiting for a mutex that is never released: whenever a task waits
\* for the write mutex, the pending-message mutex or the Registry mutex, the
\* process has exited or some task can take a step.
Waits(t) ==
    /\ lk.run[t] # <<>>
    /\ Next1(t).op = "lock"
    /\ lk.held[Next1(t).arg] # "none"

C16_NoDeadlock ==
    (\E t \in Tasks : Waits(t))
        => \/ lk.exited
           \/ \E u \in Tasks : lk.run[u] # <<>> /\ ~Waits(u)

Returned(t, prog) == lk.fn[t] = prog /\ lk.run[t] = <<>>

C16_Witness ==
    /\ Returned("cmd", CancelProgram)
    /\ Returned("reader", CloseProgram(FALSE))
    /\ lk.fn["loop"] = SendOk(TRUE)
    /\ lk.held["send"] = "loop"
    /\ lk.held["pend"] = "sweep"
    /\ Waits("retx")

\* C17: the Registry's maps are read and written under the Registry mutex
\* only, so no task is about to read or write a map while another task is
\* about to write the same map.
AtAccess(t, map) ==
    /\ ~lk.exited
    /\ lk.run[t] # <<>>
    /\ Next1(t).op = "access"
    /\ Next1(t).arg = map

C17_NoConcurrentMapAccess ==
    \A map \in {"transfers", "connections"} : \A t, u \in Tasks :
        t # u /\ AtAccess(t, map) /\ AtAccess(u, map)
            => Next1(t).kind = "read" /\ Next1(u).kind = "read"

\* C18: a line typed while a transfer of the node is InProgress or Paused is
\* executed when it is PAUSE, RESUME, CANCEL or STATUS and is refused when
\* it is any other command.
ControlCommands == {"PAUSE", "RESUME", "CANCEL", "STATUS"}
Refusals ==
    {"Cannot execute commands while transfers are in progress.",
     "cannot execute this command during active transfers"}

C18_ControlCommandsOnly ==
    [][\A n \in Nodes :
          /\ budget.script[n] # <<>>
          /\ budget'.script[n] = Tail(budget.script[n])
          /\ IsActiveTransferInProgress(n)
          => (lastOut'[n] \in Refusals
                <=> Head(budget.script[n]).op \notin ControlCommands)]_vars

\* C19: when the requester's ACK of the FILESTART has arrived at the serving
\* node, the reliable send that the read loop is waiting in returns success:
\* the wait does not end with the transfer aborted.
AckArrived(n, id) ==
    \E i \in 1..Len(net[n]) : net[n][i].type = MsgTypeACK /\ net[n][i].id = id

C19_StartFromReadLoopSucceeds ==
    [][\A n \in Nodes :
          /\ reader[n].pc = "getWait"
          /\ reader'[n].pc # "getWait"
          /\ AckArrived(n, reader[n].rel)
          => /\ Found(registry'[n], reader[n].tid)
             /\ xfer'[n][reader[n].tid].status = TransferStatusInProgress]_vars

\* C20: a send-transfer is never Complete on the sender while the
\* receive-transfer of the same file on the receiver is Failed.
C20_OutcomesAgree ==
    \A n \in Nodes : \A i \in DOMAIN xfer[n] : \A j \in DOMAIN xfer[Peer(n)] :
        /\ Sends(n, i)
        /\ xfer[n][i].status = TransferStatusComplete
        /\ Receives(Peer(n), j)
        /\ xfer[Peer(n)][j].name = xfer[n][i].name
        => xfer[Peer(n)][j].status # TransferStatusFailed


\* The step in which the read loop of n passes the line at the head of its
\* stream to the handler of its type (connection.go:404-416).
HandledByType(n) ==
    /\ Ready(n)
    /\ ~HasHandler(n, Head(net[n]))
    /\ net'[n] = Tail(net[n])

\* The line is a copy written by the retry sweep: IncrementRetry has counted
\* it (connection.go:317-318) and retry_count travels on the wire.  The
\* stream is first-in first-out, so the first transmission was read before.
Retransmitted(m) == m.retry > 0

\* C21: a retransmitted COMMAND or FILESTART, handled after its first
\* transmission, does not run the type handler again: no file is created or
\* truncated, no transfer is registered, and nothing but the ACK is written.
C21_DuplicateHandledOnce ==
    [][\A n \in Nodes :
          ( /\ HandledByType(n)
            /\ Retransmitted(Head(net[n]))
            /\ Head(net[n]).type \in {MsgTypeCommand, MsgTypeFileStart} )
             => /\ disk'[n] = disk[n]
                /\ xfer'[n] = xfer[n]
                /\ registry'[n] = registry[n]
                /\ \A r \in Written(n) : r.type = MsgTypeACK]_vars


\* The status of the transfer tid of n changes to Complete in the step.
Completes(n, tid) ==
    /\ xfer[n][tid].status # TransferStatusComplete
    /\ xfer'[n][tid].status = TransferStatusComplete

\* C22: a send-transfer becomes Complete only from WaitingAck; it never goes
\* from InProgress (or any other status) directly to Complete.
C22_CompleteFromWaitingAck ==
    [][\A n \in Nodes : \A tid \in DOMAIN xfer[n] :
          (Sends(n, tid) /\ Completes(n, tid))
             => xfer[n][tid].status = TransferStatusWaitingAck]_vars


\* The receive-transfer most recently opened on n: ids are sequential.
LatestReceive(n) ==
    LET rs == {tid \in DOMAIN xfer[n] : Receives(n, tid)}
    IN CHOOSE tid \in rs : \A other \in rs : other <= tid

\* handleFileData writes the chunk at the head of the stream to the file of
\* the receive-transfer tid in the step.
DataWritten(n, tid) ==
    /\ HandledByType(n)
    /\ Head(net[n]).type = MsgTypeFileData
    /\ xfer'[n][tid].pos = xfer[n][tid].pos + 1

\* C23: a node has at most one receive-transfer InProgress on the connection,
\* and an inbound FILEDATA is written to the receive-transfer opened last.
C23_OneCurrentReceive ==
    /\ [](\A n \in Nodes : Cardinality(DataTargets(n)) <= 1)
    /\ [][\A n \in Nodes : \A tid \in DOMAIN xfer[n] :
             DataWritten(n, tid) => tid = LatestReceive(n)]_vars


\* C24: at most MaxActive (3) registered transfers of a node are InProgress.
C24_AtMostThreeInProgress ==
    \A n \in Nodes : InProgressCount(n) <= MaxActive


\* No transfer of n is registered under the name, and the file handle of
\* every transfer opened under it is closed.
Released(n, name) ==
    /\ name \notin DOMAIN registry[n]
    /\ \A tid \in DOMAIN xfer[n] :
          xfer[n][tid].name = name => xfer[n][tid].closes >= 1

\* C25: a transfer added to the registry is eventually removed from it with
\* its file handle closed, also when the peer cancels before FILEEND.
C25_EventuallyReleased ==
    \A n \in Nodes : \A name \in Names :
        (name \in DOMAIN registry[n]) ~> Released(n, name)


\* handleFileEnd has handled the FILEEND of the receive-transfer: the file is
\* closed and the transfer Complete or Failed.
Ended(n, tid) ==
    /\ Receives(n, tid)
    /\ ~xfer[n][tid].file
    /\ xfer[n][tid].status \in {TransferStatusComplete, TransferStatusFailed}

\* The last command typed on n was a RESUME that resumed a paused transfer
\* (transfer.go:169-176).
ResumedByUser(n) == budget.script[n] = <<>> /\ lastOut[n] = "resumed"

\* C26: when a receive-transfer that was paused and resumed has had its
\* FILEEND, the destination file holds every chunk of the sender's file, in
\* order.
C26_PausedDataKept ==
    \A n \in Nodes : \A tid \in DOMAIN xfer[n] :
        (Ended(n, tid) /\ ResumedByUser(n))
            => /\ disk[n][xfer[n][tid].name].exists
               /\ disk[n][xfer[n][tid].name].data =
                     disk[Peer(n)][xfer[n][tid].name].data


\* The bytes written through the file handle of the transfer: one chunk for
\* every File.Write of handleFileData (connection.go:1130).
BytesWritten(x) == x.pos * ChunkSize

\* C27: the bytes written to the file of a receive-transfer never exceed the
\* size declared in its FILESTART, nor the configured size limit.
C27_WrittenWithinDeclared ==
    \A n \in Nodes : \A tid \in DOMAIN xfer[n] :
        Receives(n, tid)
            => /\ BytesWritten(xfer[n][tid]) <= xfer[n][tid].size
               /\ cfg[n].maxSize > 0
                     => BytesWritten(xfer[n][tid]) <= cfg[n].maxSize * MiB


\* The ids under which calls of SendReliableMessage of a node wait in their
\* select (connection.go:360-365), given its command task c, its read loop r
\* and its send goroutines ls.
ReliableWaits(c, r, ls) ==
    (IF c.pc \in {"getRel", "startWait", "putmStart"} THEN {c.id} ELSE {})
    \cup (IF r.pc = "getWait" THEN {r.rel} ELSE {})
    \cup {ls[tid].id : tid \in {t \in DOMAIN ls : ls[t].pc = "endWait"}}

\* responseChan of the call made under id holds a message.
Responded(n, id) == \E e \in rchan[n] : e.id = id /\ e.ch = "rel"

\* The caller of the reliable send under id goes on as after a nil return in
\* the step: the send goroutine of the transfer is started, the transfer is
\* set Complete by its goroutine, or executeRemoteCommand enters its select.
NilReturned(n, id) ==
    \/ /\ cmd[n].pc \in {"startWait", "putmStart"} /\ cmd[n].id = id
       /\ cmd[n].tid \notin DOMAIN loops[n] /\ cmd[n].tid \in DOMAIN loops'[n]
    \/ /\ cmd[n].pc = "getRel" /\ cmd[n].id = id
       /\ cmd'[n].pc = "getResult"
    \/ \E tid \in DOMAIN loops[n] :
          /\ loops[n][tid].pc = "endWait" /\ loops[n][tid].id = id
          /\ tid \notin DOMAIN loops'[n]
          /\ xfer'[n][tid].status = TransferStatusComplete

\* A line with the id is handed to the registered handler of the id in the
\* step, or a handler already holding it completes its put.
ReceivedFor(n, id) ==
    \/ /\ Ready(n)
       /\ Head(net[n]).id = id
       /\ id \in DOMAIN handlers[n]
       /\ net'[n] = Tail(net[n])
    \/ reader[n].pc = "push" /\ reader[n].id = id

\* The reliable send of the step returned the error of SendMessage.
SendErrorReturned(n) ==
    lastOut[n] # "failed to send command" /\ lastOut'[n] = "failed to send command"

\* C28: a reliable send returns nil only if its response channel holds a
\* message, which is put there only when a line with the id of the sent
\* message is received while the handler is registered; and when the call
\* returns (nil, timeout or send error) no handler is registered under its id.
C28_ReliableSend ==
    [][\A n \in Nodes :
          /\ \A id \in ReliableWaits(cmd[n], reader[n], loops[n]) :
                /\ NilReturned(n, id) => Responded(n, id)
                /\ id \notin ReliableWaits(cmd'[n], reader'[n], loops'[n])
                      => id \notin DOMAIN handlers'[n]
          /\ \A e \in rchan'[n] \ rchan[n] :
                e.ch = "rel" => ReceivedFor(n, e.id)
          /\ SendErrorReturned(n) => NewId(n) \notin DOMAIN handlers'[n]]_vars

\* One reliable send has returned nil (the send goroutine of A runs or has
\* run), another its timeout, and no handler is left on either node.
C28_Witness ==
    /\ xfer["A"] # <<>> /\ xfer["A"][1].bytes > 0
    /\ lastOut["B"] = "reliable message timed out"
    /\ \A n \in Nodes : handlers[n] = <<>>


\* The read loop of n takes the oldest line in the step and a response handler
\* is registered under the id of the line.
HandlerRegisteredFor(n) ==
    /\ Ready(n)
    /\ Head(net[n]).id \in DOMAIN handlers[n]
    /\ net'[n] = Tail(net[n])

\* What the registered handler does with message m: the handler of a reliable
\* send puts every message on its channel, the handler of
\* executeRemoteCommand a COMMANDRESULT or an ERROR only.
PassedToHandler(n, m) ==
    LET kind == handlers[n][m.id]
        takes == kind = "rel" \/ m.type \in {MsgTypeCommandResult, MsgTypeError}
    IN takes =>
          \/ \E e \in rchan'[n] \ rchan[n] : e.id = m.id
          \/ reader'[n].pc = "push" /\ reader'[n].id = m.id

\* C29: a received message whose id has a registered response handler is given
\* to that handler and to no handler of its type: no transfer, file, registry
\* entry, command task or output of the node changes, and nothing but the
\* automatic ACK is written.
C29_HandlerOnly ==
    [][\A n \in Nodes :
          HandlerRegisteredFor(n) =>
             /\ PassedToHandler(n, Head(net[n]))
             /\ xfer'[n] = xfer[n]
             /\ disk'[n] = disk[n]
             /\ registry'[n] = registry[n]
             /\ cmd'[n] = cmd[n]
             /\ loops'[n] = loops[n]
             /\ lastOut'[n] = lastOut[n]
             /\ \A r \in Written(n) : r.type = MsgTypeACK]_vars

\* The ACK of FILEEND has been given to the handler of the send goroutine
\* while the transfer it names is still in progress: handleAck would have
\* completed and unregistered it.
C29_Witness ==
    \E n \in Nodes : \E tid \in DOMAIN loops[n] :
        /\ loops[n][tid].pc = "endWait"
        /\ Responded(n, loops[n][tid].id)
        /\ xfer[n][tid].status = TransferStatusInProgress
        /\ xfer[n][tid].name \in DOMAIN registry[n]


\* The retransmissions of the message with the id made by n so far: the
\* copies written to a peer that reads nothing, and the clones whose
\* goroutine has not written yet.
Retransmissions(n, id) ==
    Cardinality({i \in 1..Len(net[Peer(n)]) :
                    net[Peer(n)][i].id = id /\ Retransmitted(net[Peer(n)][i])})
    + Cardinality({m \in retx[n] : m.id = id})

\* The ids of the lines n has written.
WrittenIds(n) == {net[Peer(n)][i].id : i \in 1..Len(net[Peer(n)])}

\* The sweep of n runs in the step.
Swept(n) == n \notin clock.swept /\ n \in clock'.swept

\* C30: a pending message is retransmitted at most maxRetries = 5 times, no
\* copy carries a higher retry count, and the sweep that finds the count of an
\* unacknowledged entry exhausted deletes the entry; this is the sweep that
\* follows the last retransmission, so an exhausted entry is never older than
\* one sweep period.
C30_FiveRetransmissions ==
    /\ [](\A n \in Nodes :
             /\ \A id \in WrittenIds(n) : Retransmissions(n, id) <= maxRetries
             /\ \A i \in 1..Len(net[Peer(n)]) : net[Peer(n)][i].retry <= maxRetries
             /\ \A id \in DOMAIN pending[n] :
                   /\ pending[n][id].retry <= maxRetries
                   /\ pending[n][id].retry = Retransmissions(n, id)
                   /\ pending[n][id].retry = maxRetries
                         => clock.now - pending[n][id].last <= SweepPeriod)
    /\ [][\A n \in Nodes : \A id \in DOMAIN pending[n] :
             (Swept(n) /\ pending[n][id].retry >= maxRetries)
                => id \notin DOMAIN pending'[n]]_vars

\* The COMMAND of B has been retransmitted five times, its entry is gone
\* from the pending map, and the reliable send is still waiting.
C30_Witness ==
    /\ cmd["B"].pc = "getRel"
    /\ Retransmissions("B", cmd["B"].id) = maxRetries
    /\ retx["B"] = {}
    /\ cmd["B"].id \notin DOMAIN pending["B"]


\* The read loop of n processes an ACK in the step.
AckProcessed(n) ==
    /\ Ready(n)
    /\ Head(net[n]).type = MsgTypeACK
    /\ net'[n] = Tail(net[n])

\* A goroutine started by the sweep still holds a clone of the message with
\* the id, which it writes when it gets sendMutex.
CloneUnwritten(n, id) == \E m \in retx'[n] : m.id = id

\* C31: when an ACK has been processed, the pending entry under its id is
\* gone and no retransmission of the message under that id remains to be
\* written to the stream.
C31_AckStopsRetransmission ==
    [][\A n \in Nodes :
          AckProcessed(n) =>
             /\ Head(net[n]).id \notin DOMAIN pending'[n]
             /\ ~CloneUnwritten(n, Head(net[n]).id)]_vars


\* The messages n sends in the step (first transmissions, not the clones of
\* the sweep).
SentNow(n) == {m \in Written(n) : ~Retransmitted(m)}

AckRequiringTypes ==
    {MsgTypeFileStart, MsgTypeFileEnd, MsgTypeCommand, MsgTypeCommandResult}

\* The types SendMessage enters in the pending map (connection.go:277).
TrackedTypes == {MsgTypeFileStart, MsgTypeFileEnd, MsgTypeCommand}

\* C32 as stated: every message of a type that requires an ACK has a pending
\* entry once it is sent.
C32_EveryAckTypePending ==
    [][\A n \in Nodes : \A m \in SentNow(n) :
          m.type \in AckRequiringTypes => m.id \in DOMAIN pending'[n]]_vars

\* C32, amended: a sent FILESTART, FILEEND or COMMAND has a pending entry
\* from the send on, and the entry leaves the map only when the ACK with its
\* id is processed or when the sweep finds its retries exhausted; a
\* COMMANDRESULT is never entered.
C32_TrackedUntilAcked ==
    /\ [](\A n \in Nodes : \A id \in DOMAIN pending[n] :
             /\ pending[n][id].msg.type \in TrackedTypes
             /\ pending[n][id].msg.id = id)
    /\ [][\A n \in Nodes :
             /\ \A m \in SentNow(n) :
                   m.type \in TrackedTypes => m.id \in DOMAIN pending'[n]
             /\ \A id \in DOMAIN pending[n] \ DOMAIN pending'[n] :
                   \/ AckProcessed(n) /\ Head(net[n]).id = id
                   \/ pending[n][id].retry >= maxRetries]_vars

\* A FILEEND has been sent and waits for its ACK with an entry in the pending
\* map, while the COMMANDRESULT sent by the peer has none.
C32_Witness ==
    \E n \in Nodes :
        /\ \E i \in 1..Len(net[Peer(n)]) :
              /\ net[Peer(n)][i].type = MsgTypeFileEnd
              /\ net[Peer(n)][i].id \in DOMAIN pending[n]
        /\ pending[Peer(n)] = <<>>
        /\ \E x \in Range(xfer[Peer(n)]) : x.type = TransferTypeReceive


\* C33: the set of outstanding pings of a connection never holds more than
\* one entry.
C33_OnePingOutstanding ==
    \A n \in Nodes : Cardinality(link[n].pings) <= 1


\* A retransmitting goroutine of n calls WriteString and Flush in the step.
CloneWritten(n) == \E m \in retx[n] : retx'[n] = retx[n] \ {m}

\* The sweep of n starts a retransmitting goroutine in the step.
CloneStarted(n) == \E m \in retx'[n] : m \notin retx[n]

\* The prober of n sends a PING in the step.
PingSent(n) == \E q \in link'[n].pings : q \notin link[n].pings

\* C39: after Close the keep-alive prober of the connection sends no PING,
\* the retry sweep starts no retransmission and no retransmitting goroutine
\* writes on the connection.
C39_NoWriteAfterClose ==
    [][\A n \in Nodes :
          ~connOpen[n] => ~PingSent(n) /\ ~CloneStarted(n) /\ ~CloneWritten(n)]_vars


\* The read loop of n handles a FILESTART by its type in the step.
FileStartHandled(n) ==
    /\ Ready(n)
    /\ Head(net[n]).type = MsgTypeFileStart
    /\ Head(net[n]).id \notin DOMAIN handlers[n]
    /\ net'[n] = Tail(net[n])

\* The FILESTART must be refused by n: its path leads out of the folder, its
\* size is over the limit of n, or n does not receive.
MustRefuse(n, m) ==
    \/ ~InFolder(m.path)
    \/ cfg[n].maxSize > 0 /\ m.size > cfg[n].maxSize * MiB
    \/ cfg[n].writeOnly

\* C34: a FILESTART that must be refused is answered with an ERROR, registers
\* no transfer and creates or truncates no file.
C34_RefusedFileStart ==
    [][\A n \in Nodes :
          (FileStartHandled(n) /\ MustRefuse(n, Head(net[n]))) =>
             /\ \E r \in Written(n) : r.type = MsgTypeError
             /\ xfer'[n] = xfer[n]
             /\ registry'[n] = registry[n]
             /\ disk'[n] = disk[n]]_vars


\* C35: a FILESTART that names a file which exists on the receiver leaves the
\* existing file as it is (the incoming bytes go to a file of another name).
C35_ExistingFileKept ==
    [][\A n \in Nodes :
          (FileStartHandled(n) /\ disk[n][Head(net[n]).path].exists) =>
             disk'[n][Head(net[n]).path] = disk[n][Head(net[n]).path]]_vars


\* handleGetCommand, called from the read loop of n, returns in the step with
\* the error of its reliable send of FILESTART.
GetSendFailed(n) == reader[n].pc = "getWait" /\ reader'[n].pc = "idle"

\* Transfer tid of n is running: its send goroutine is, or the command task
\* waits for the ACK of its FILESTART.
StillRunning(n, tid) ==
    \/ tid \in DOMAIN loops[n]
    \/ cmd[n].pc = "startWait" /\ cmd[n].tid = tid

\* C36: when the reliable send of FILESTART fails, the GET handler answers
\* with an ERROR under the id of the GET, the source file is closed, and the
\* registry is as it was before the GET: the entries of the other paths are
\* untouched, and a transfer of the same path that was running before the GET
\* and still is has its entry.
C36_FailedGetLeavesRegistry ==
    [][\A n \in Nodes :
          GetSendFailed(n) =>
             LET tid  == reader[n].tid
                 name == xfer[n][tid].name
             IN /\ \E r \in Written(n) : r.type = MsgTypeError /\ r.id = reader[n].id
                /\ xfer'[n][tid].closes = 1
                /\ \A other \in DOMAIN registry[n] \ {name} :
                      /\ other \in DOMAIN registry'[n]
                      /\ registry'[n][other] = registry[n][other]
                /\ \A t \in DOMAIN xfer[n] \ {tid} :
                      (xfer[n][t].name = name /\ StillRunning(n, t))
                         => /\ name \in DOMAIN registry'[n]
                            /\ registry'[n][name] = t]_vars


\* PAUSE id or RESUME id typed on n reaches the registered transfer id in the
\* step (part_007:675-714): Pause or Resume is called on it.
PauseCalled(n, id) ==
    /\ cmd[n].pc = "idle" /\ Typed(n, "PAUSE", "", id)
    /\ id \in Range(registry[n])
    /\ budget'.script[n] = Tail(budget.script[n])
ResumeCalled(n, id) ==
    /\ cmd[n].pc = "idle" /\ Typed(n, "RESUME", "", id)
    /\ id \in Range(registry[n])
    /\ budget'.script[n] = Tail(budget.script[n])

SameTransfer(n, id) ==
    /\ xfer'[n][id].status = xfer[n][id].status
    /\ xfer'[n][id].paused = xfer[n][id].paused
    /\ xfer'[n][id].bytes = xfer[n][id].bytes

\* C37: Pause makes an InProgress transfer Paused and sets its flag, Resume
\* makes a Paused transfer InProgress and clears it, neither changes the byte
\* count, and in every other status both leave status, flag and byte count
\* as they are.
C37_PauseResumeFrame ==
    [][\A n \in Nodes : \A id \in 1..2 :
          /\ PauseCalled(n, id) =>
                IF xfer[n][id].status = TransferStatusInProgress
                THEN /\ xfer'[n][id].status = TransferStatusPaused
                     /\ xfer'[n][id].paused
                     /\ xfer'[n][id].bytes = xfer[n][id].bytes
                ELSE SameTransfer(n, id)
          /\ ResumeCalled(n, id) =>
                IF xfer[n][id].status = TransferStatusPaused
                THEN /\ xfer'[n][id].status = TransferStatusInProgress
                     /\ ~xfer'[n][id].paused
                     /\ xfer'[n][id].bytes = xfer[n][id].bytes
                ELSE SameTransfer(n, id)]_vars

\* PAUSE has been typed for a registered transfer that had ended, and the
\* transfer is as it ended; RESUME is the next command.
C37_Witness ==
    \E n \in Nodes : \E id \in Range(registry[n]) :
        /\ xfer[n][id].status \notin {TransferStatusInProgress, TransferStatusPaused}
        /\ ~xfer[n][id].paused
        /\ lastOut[n] = "ok"
        /\ Typed(n, "RESUME", "", id)


\* A transfer is registered on n in the step while a transfer of the same
\* path has an entry.
AddedOverEntry(n) ==
    /\ Len(xfer'[n]) = Len(xfer[n]) + 1
    /\ xfer'[n][Len(xfer'[n])].name \in DOMAIN registry[n]

\* The send goroutine of transfer tid of n ends in the step; its deferred
\* RemoveTransfer runs (connection.go:681-683).
GoroutineEnded(n, tid) == tid \in DOMAIN loops[n] /\ tid \notin DOMAIN loops'[n]

\* C38: a transfer registered while a transfer of the same path is registered
\* takes the entry of the path, so that the registry holds the later one
\* only; and when the earlier transfer is removed, the entry of the later one
\* is deleted.
C38_LaterTakesEntry ==
    [][\A n \in Nodes :
          /\ AddedOverEntry(n) =>
                LET later == Len(xfer'[n])
                    name  == xfer'[n][later].name
                IN /\ registry'[n][name] = later
                   /\ registry[n][name] \notin Range(registry'[n])
          /\ \A tid \in DOMAIN loops[n] :
                LET name == xfer[n][tid].name
                IN (/\ GoroutineEnded(n, tid)
                    /\ name \in DOMAIN registry[n]
                    /\ registry[n][name] > tid)
                      => name \notin DOMAIN registry'[n]]_vars

\* Two transfers of f were registered on n at the same time; the send
\* goroutine of the earlier one has ended and the later one, still in
\* progress, has no entry.
C38_Witness ==
    \E n \in Nodes :
        /\ Len(xfer[n]) = 2
        /\ xfer[n][1].name = xfer[n][2].name
        /\ xfer[n][1].status = TransferStatusComplete
        /\ xfer[n][2].status = TransferStatusInProgress
        /\ loops[n] = <<>>
        /\ xfer[n][2].name \notin DOMAIN registry[n]

====
